---- MODULE Spec2Model ----
(***************************************************************************)
(* State-machine model of class BlurredWindowBackground                    *)
(* (src/BlurredWindowBackground.js, lines 36-1034): the wallpaper polling  *)
(* cycle updateAndApplyBlurredWallpaper, the two-stage blur pipeline, the   *)
(* flow-id guard and the crossfade state machine _applyBackgroundImage.    *)
(*                                                                         *)
(* Every action is one run-to-completion segment of the JavaScript event   *)
(* loop: the code between two awaits of an async function, a timer         *)
(* callback, or an event listener.  _updateWindowState is taken with its   *)
(* NW.js timing (it reads the window and the screens synchronously), so it *)
(* is part of the segment that calls it.                                   *)
(***************************************************************************)
EXTENDS Integers, Sequences, FiniteSets, TLC

\* ------------------------------------------------------------------ bounds
\* Concurrent invocations of updateAndApplyBlurredWallpaper that are tracked.
MaxCycles == 2
\* Environment events in one run: wallpaper changes, display changes,
\* getWallpaper failures, transform failures, missing source files.
MaxEnvEvents == 1
\* Requests issued by the caller of the transition controller alone.
MaxRequests == 3
\* Regenerations of an artifact and flow ids issued around the transition
\* controller alone.
MaxRewrites == 2
MaxSupersedes == 1
\* Window events in one run: state changes, moves or resizes, polls.
MaxWindowEvents == 3
MaxViewEvents == 3

\* ------------------------------------------------------------- value spaces
Wallpapers == {"W1", "W2"}
NoPath == ""
\* A display size is an index; 0 stands for a display with width <= 0 or
\* height <= 0.
ValidSizes == {1, 2}
Sizes == {0} \cup ValidSizes
Kinds == {"preview", "final"}

\* A file on disk: the identity and size it was generated from and its mtime
\* (ver > 0 iff the file exists).
NoFile == [src |-> NoPath, size |-> 0, ver |-> 0]
\* A CSS url value: null, 'none', or url('<path>?t=<mtime>').
NullUrl == [kind |-> "null", ver |-> 0]
NoneUrl == [kind |-> "none", ver |-> 0]
NoMeta == [path |-> NoPath, dims |-> 0]
NoPending == [kind |-> "null", hflow |-> 0]
\* What the container shows: the file assigned last, and whether the flow id
\* held by the cycle that handed it over was still the active one then.
\* blankedOver is the kind of the applied image that an assignment of 'none'
\* replaced ("null" for every other assignment).
NoVisible == [kind |-> "null", src |-> NoPath, size |-> 0, current |-> TRUE,
              blankedOver |-> "null"]
\* Before _initialize has run.  Afterwards: whether the metadata file was
\* absent or unreadable, the identity it loaded, and whether the recorded
\* source and the final artifact both existed.
NotStarted ==
    [ran |-> FALSE, metaAbsent |-> FALSE, identity |-> NoPath, cold |-> FALSE]
\* Who awaits the promise of an _applyBackgroundImage call.
NoWaiter == 0
InitWaiter == -1

VARIABLES
    \* environment
    wallpaper,            \* what getWallpaper() would return now
    screen,               \* size of the display that owns the window
    dmNotify,             \* display-metrics notifications not yet delivered
    budget,               \* environment events left
    \* disk
    meta,                 \* bwb_metadata.json
    previewFile,          \* blurred_wallpaper_preview.webp
    finalFile,            \* blurred_wallpaper_final.webp
    mtime,                \* clock used for file modification times
    \* instance fields
    currentOriginalWallpaperPath,
    activeWallpaperFlowId,
    lastKnownScreenDimensions,
    currentScreenBounds,
    backgroundImage,      \* backgroundContainer.style.backgroundImage
    currentAppliedCssUrl,
    lastAppliedImagePath,
    isTransitioningBackground,
    pendingImageForTransition,
    overlayColor,         \* the image the overlay colour was last computed
                          \* from (NullUrl: the default for the active mode)
    wallpaperCheckTimeout,\* the timer _wallpaperCheckTimeoutId names, if it
                          \* is pending: "none", "success", "error"
    strayPollTimers,      \* pending poll timers the field no longer names
    \* control
    transitions,          \* closures of _applyBackgroundImage still listening
    cssTransitionRunning, \* the browser is cross-fading background-image
    zeroTimers,           \* setTimeout(..., 0) re-applications not yet run
    cycles,               \* invocations of updateAndApplyBlurredWallpaper
    initPc,               \* position of _initialize
    \* history
    visible,              \* what the last assignment of backgroundImage showed
    assignedWhileTransitioning,
    transitionsStarted,
    reqLeft,              \* harness: requests the caller may still make
    reqLog,               \* harness: the requests made, with their branch
    destroyed,            \* destroy() has been called
    startup,              \* what _initialize found when it ran
    geometry,             \* a call of _updateWindowState and what it resolved
    dynamicOverlay,       \* a call of the overlay alpha mapping
    win,                  \* the window, what the instance observed of it
                          \* and the move/resize debounce
    sampler,              \* a call of _getExtremeBrightnessFromWindowRegion
    view                  \* the background offset, its animation frames
                          \* and the overlay computations in flight

envVars == <<wallpaper, screen, dmNotify, budget>>
diskVars == <<meta, previewFile, finalFile, mtime>>
flowVars == <<currentOriginalWallpaperPath, activeWallpaperFlowId,
              lastKnownScreenDimensions, currentScreenBounds>>
imageVars == <<backgroundImage, currentAppliedCssUrl, lastAppliedImagePath,
               isTransitioningBackground, pendingImageForTransition,
               transitions, cssTransitionRunning, visible,
               assignedWhileTransitioning,
               transitionsStarted>>
applyVars == <<imageVars, overlayColor>>
callVars == <<geometry, dynamicOverlay, win, sampler, view>>
harnessVars == <<reqLeft, reqLog, destroyed, startup, callVars>>
timerVars == <<wallpaperCheckTimeout, strayPollTimers>>
vars == <<envVars, diskVars, flowVars, applyVars, timerVars,
          zeroTimers, cycles, initPc, harnessVars>>

Slots == 1..MaxCycles

\* The cycle's next segment is a microtask: the promise it awaits was
\* resolved in the segment that created it (an early return of
\* _generateBlurredImage, lines 660-680, or of _applyBackgroundImage, lines
\* 714-729), or the invocation has just returned.  Microtasks run before
\* any timer or event.
Urgent(c) ==
    \/ c.pc = "done"
    \/ c.pc \in {"genPreview", "genFinal"} /\ c.gen \in {"true", "false"}
    \/ c.applyRes = "rejected"

NoUrgent == \A s \in Slots : ~Urgent(cycles[s])

CanStep(s) == NoUrgent \/ Urgent(cycles[s])

\* ------------------------------------------------------------------ helpers
FileOf(kind) == IF kind = "preview" THEN previewFile ELSE finalFile

Exists(f) == f.ver > 0

\* _pathToCssUrl: url('<path>?t=<mtime of the file>').
PathToCssUrl(kind, f) == [kind |-> kind, ver |-> f.ver]

\* _updateLastKnownScreenDimensions: only a positive size is recorded.
UpdateLastKnownScreenDimensions(old, bounds) == IF bounds > 0 THEN bounds ELSE old

\* _saveMetadata, as a value.
Metadata(path, dims) == [path |-> path, dims |-> dims]

\* _updateOverlayBasedOnCurrentPosition (787-829) on the overlay colour, with
\* last the applied image path and old the colour before the call: nothing
\* without the overlay element (792), the default without an applied image
\* (798), nothing without usable display bounds (805), else the colour
\* sampled from the image.
OverlayAfterUpdate(last, old) ==
    IF destroyed THEN old
    ELSE IF last = "null" \/ ~Exists(FileOf(last)) THEN NullUrl
    ELSE IF currentScreenBounds = 0 THEN old
    ELSE PathToCssUrl(last, FileOf(last))

\* ------------------------------------------- _applyBackgroundImage (712-785)
ApplyOutcome_NoSameCheck(kind, f, flowId, restore) ==
    IF flowId # activeWallpaperFlowId /\ ~restore THEN "reject"
    ELSE IF destroyed THEN "nocontainer"
    ELSE IF isTransitioningBackground /\ ~restore THEN "queue"
    ELSE IF ~Exists(f) THEN "nofile"
    ELSE "start"

ApplyOutcome_NoFlowCheck(kind, f, flowId, restore) ==
    IF destroyed THEN "nocontainer"
    ELSE IF isTransitioningBackground /\ ~restore THEN "queue"
    ELSE IF ~Exists(f) THEN "nofile"
    ELSE IF currentAppliedCssUrl = PathToCssUrl(kind, f) /\ ~restore THEN "same"
    ELSE "start"

\* Which branch a call takes (lines 714-741), in the order the code tests.
\* f is the file at the path when the call is made.
ApplyOutcome(kind, f, flowId, restore) ==
    IF flowId # activeWallpaperFlowId /\ ~restore THEN "reject"
    ELSE IF destroyed THEN "nocontainer"
    ELSE IF isTransitioningBackground /\ ~restore THEN "queue"
    ELSE IF ~Exists(f) THEN "nofile"
    ELSE IF currentAppliedCssUrl = PathToCssUrl(kind, f) /\ ~restore THEN "same"
    ELSE "start"

\* What the promise of the call resolves to before any transition ends:
\* "wait" when it resolves only when the transition started by the call ends.
ApplyResult(kind, f, flowId, restore) ==
    LET o == ApplyOutcome(kind, f, flowId, restore)
    IN  IF o = "start" THEN "wait" ELSE IF o = "same" THEN "true" ELSE "rejected"

QueuePending_KeepsFirst(pending, request) ==
    IF pending = NoPending THEN request ELSE pending

\* Line 721: the request replaces whatever the pending slot held.
QueuePending(pending, request) == request

\* The synchronous part of _applyBackgroundImage(kind, flowId, restore):
\* lines 714-741 and the registration of the handler and the safety timeout
\* (763-783).  waiter awaits the promise; hflow is the flow id held by the
\* cycle that handed the image over.
ApplyBackgroundImage(kind, f, flowId, restore, waiter, hflow) ==
    LET o == ApplyOutcome(kind, f, flowId, restore)
        url == PathToCssUrl(kind, f)
    IN  /\ pendingImageForTransition' =
              IF o = "queue"
              THEN QueuePending(pendingImageForTransition,
                                [kind |-> kind, hflow |-> hflow])
              ELSE pendingImageForTransition
        /\ currentAppliedCssUrl' =
              IF o = "nofile" /\ currentAppliedCssUrl.kind = kind THEN NullUrl
              ELSE currentAppliedCssUrl
        /\ lastAppliedImagePath' =
              IF o \in {"same", "start"} THEN kind ELSE lastAppliedImagePath
        /\ isTransitioningBackground' =
              IF o = "start" THEN TRUE ELSE isTransitioningBackground
        /\ overlayColor' =
              IF o = "same" /\ (flowId = activeWallpaperFlowId \/ restore)
              THEN OverlayAfterUpdate(kind, overlayColor)
              ELSE overlayColor
        /\ backgroundImage' = IF o = "start" THEN url ELSE backgroundImage
        /\ cssTransitionRunning' =
              IF o = "start" /\ backgroundImage # url THEN TRUE
              ELSE cssTransitionRunning
        /\ transitions' =
              IF o = "start"
              THEN Append(transitions,
                          [kind |-> kind, url |-> url, flowId |-> flowId,
                           restore |-> restore, handler |-> TRUE,
                           timer |-> TRUE, waiter |-> waiter])
              ELSE transitions
        /\ visible' =
              IF o = "start"
              THEN [kind |-> kind, src |-> f.src, size |-> f.size,
                    current |-> hflow = activeWallpaperFlowId,
                    blankedOver |-> "null"]
              ELSE visible
        /\ assignedWhileTransitioning' =
              (assignedWhileTransitioning
                  \/ (o = "start" /\ isTransitioningBackground))
        /\ transitionsStarted' =
              IF o = "start" /\ initPc = "harness" THEN transitionsStarted + 1
              ELSE transitionsStarted

\* Line 745: the completion belongs to a superseded flow.
IsStaleCompletion(t) ==
    t.flowId # activeWallpaperFlowId /\ t.kind # "final" /\ ~t.restore

\* Lines 758-760: the overlay follows a completion that is not stale, has
\* nothing pending and belongs to the active flow.
OverlayAfterCompletion(t, st) ==
    IF /\ ~IsStaleCompletion(t)
       /\ st.pend = NoPending
       /\ (t.flowId = activeWallpaperFlowId \/ t.restore)
    THEN OverlayAfterUpdate(lastAppliedImagePath, st.ov)
    ELSE st.ov

TransitionEndHandler_DropsPending(t, st) ==
    [cur |-> IF IsStaleCompletion(t) THEN st.cur ELSE t.url,
     pend |-> NoPending,
     zero |-> st.zero,
     ov |-> OverlayAfterCompletion(t, st),
     res |-> Append(st.res, [w |-> t.waiter, r |-> ~IsStaleCompletion(t)])]

\* transitionEndHandler (743-762) of closure t, on the fields st it updates.
TransitionEndHandler(t, st) ==
    [cur |-> IF IsStaleCompletion(t) THEN st.cur ELSE t.url,
     pend |-> NoPending,
     zero |-> IF st.pend # NoPending THEN Append(st.zero, st.pend) ELSE st.zero,
     ov |-> OverlayAfterCompletion(t, st),
     res |-> Append(st.res, [w |-> t.waiter, r |-> ~IsStaleCompletion(t)])]

\* A transitionend event runs the handlers of all closures that still
\* listen, in the order they were registered.
RECURSIVE RunHandlers(_, _)
RunHandlers(ts, st) ==
    IF ts = <<>> THEN st
    ELSE RunHandlers(Tail(ts),
                     IF Head(ts).handler THEN TransitionEndHandler(Head(ts), st)
                     ELSE st)

\* The result a promise resolution hands to the cycle in slot s.
Resolved(res, w) == \E i \in 1..Len(res) : res[i].w = w
ResultFor(res, w) ==
    LET i == CHOOSE j \in 1..Len(res) : res[j].w = w
    IN  IF res[i].r THEN "true" ELSE "false"

Resolve(res) ==
    /\ cycles' = [s \in Slots |->
                    IF Resolved(res, s)
                    THEN [cycles[s] EXCEPT !.applyRes = ResultFor(res, s)]
                    ELSE cycles[s]]
    /\ initPc' = IF Resolved(res, InitWaiter) /\ initPc = "restoreFinal"
                 THEN "restoredFinal"
                 ELSE IF Resolved(res, InitWaiter) /\ initPc = "restorePreview"
                 THEN "restoredPreview"
                 ELSE initPc

\* The browser reports the end of the cross-fade (763, 783): every
\* registered handler runs and every safety timeout is cleared.  A
\* cross-fade lasts backgroundTransitionDuration, so it does not end while
\* a zero-delay timer is still due.
TransitionEnd ==
    /\ NoUrgent
    /\ zeroTimers = <<>>
    /\ cssTransitionRunning
    /\ \E i \in 1..Len(transitions) : transitions[i].handler
    /\ LET st == RunHandlers(transitions,
                    [cur |-> currentAppliedCssUrl,
                     pend |-> pendingImageForTransition,
                     zero |-> zeroTimers, ov |-> overlayColor,
                     res |-> <<>>])
       IN  /\ currentAppliedCssUrl' = st.cur
           /\ overlayColor' = st.ov
           /\ pendingImageForTransition' = st.pend
           /\ zeroTimers' = st.zero
           /\ Resolve(st.res)
    /\ isTransitioningBackground' = FALSE
    /\ cssTransitionRunning' = FALSE
    /\ transitions' = <<>>
    /\ UNCHANGED <<envVars, diskVars, flowVars, backgroundImage,
                   lastAppliedImagePath, visible, assignedWhileTransitioning,
                   transitionsStarted, timerVars, harnessVars>>

RemoveAt(seq, i) == [j \in 1..(Len(seq) - 1) |-> IF j < i THEN seq[j] ELSE seq[j + 1]]

\* The safety timeout of the oldest closure whose timeout is still pending
\* fires (765-781).  It completes the transition only if the flag is set;
\* after destroy() line 767 throws on the null container and the promise
\* stays unresolved.
\* Its delay is backgroundTransitionDuration + 50, so a zero-delay timer
\* that is due fires first.
SafetyTimeout ==
    /\ NoUrgent
    /\ zeroTimers = <<>>
    /\ \E i \in 1..Len(transitions) : transitions[i].timer
    /\ LET i == CHOOSE j \in 1..Len(transitions) :
                    /\ transitions[j].timer
                    /\ \A k \in 1..(j - 1) : ~transitions[k].timer
           t == transitions[i]
       IN  IF isTransitioningBackground /\ ~destroyed
           THEN /\ currentAppliedCssUrl' = t.url
                /\ isTransitioningBackground' = FALSE
                /\ pendingImageForTransition' = NoPending
                /\ zeroTimers' =
                      IF pendingImageForTransition # NoPending
                      THEN Append(zeroTimers, pendingImageForTransition)
                      ELSE zeroTimers
                /\ overlayColor' =
                      IF /\ pendingImageForTransition = NoPending
                         /\ (t.flowId = activeWallpaperFlowId \/ t.restore)
                      THEN OverlayAfterUpdate(lastAppliedImagePath,
                                              overlayColor)
                      ELSE overlayColor
                /\ transitions' = RemoveAt(transitions, i)
                /\ Resolve(<<[w |-> t.waiter, r |-> TRUE]>>)
           ELSE /\ transitions' = [transitions EXCEPT ![i].timer = FALSE]
                /\ UNCHANGED <<currentAppliedCssUrl, isTransitioningBackground,
                               pendingImageForTransition, overlayColor,
                               zeroTimers, cycles, initPc>>
    /\ UNCHANGED <<envVars, diskVars, flowVars, backgroundImage,
                   lastAppliedImagePath, cssTransitionRunning, visible,
                   assignedWhileTransitioning, transitionsStarted,
                   timerVars, harnessVars>>

\* A queued re-application runs (749, 757, 773): the flow id is read when
\* the timer fires, and nobody awaits the promise.
PendingReapply ==
    /\ NoUrgent
    /\ zeroTimers # <<>>
    /\ ApplyBackgroundImage(Head(zeroTimers).kind,
                            FileOf(Head(zeroTimers).kind),
                            activeWallpaperFlowId, FALSE, NoWaiter,
                            Head(zeroTimers).hflow)
    /\ zeroTimers' = Tail(zeroTimers)
    /\ UNCHANGED <<envVars, diskVars, flowVars, timerVars, cycles,
                   initPc, harnessVars>>

\* ------------------------------ updateAndApplyBlurredWallpaper (525-656)
\* One invocation.  pc is the await it is suspended at.  The fields after
\* applyRes are history of the invocation, not program state.
IdleCycle ==
    [pc |-> "idle", isInitialLoad |-> FALSE, forceRegenerate |-> FALSE,
     localFlowId |-> 0, newOriginalPath |-> NoPath, wallpaperChanged |-> FALSE,
     currentActiveFlowId |-> 0, screenSize |-> 0,
     previewExists |-> FALSE, finalExists |-> FALSE, gen |-> "none",
     previewAppliedInThisFlow |-> FALSE, applyRes |-> "none",
     decided |-> FALSE, transforms |-> 0, issued |-> 0, superseded |-> FALSE,
     noSource |-> FALSE, genFailed |-> FALSE, apps |-> <<>>, solo |-> FALSE,
     calm |-> FALSE, trigger |-> "none", reused |-> FALSE,
     wasApplied |-> FALSE, sched |-> "none", replaced |-> FALSE]

InFlight(c) == c.pc \notin {"idle", "done"}

FreeSlot == CHOOSE s \in Slots : cycles[s].pc = "idle" /\ \A r \in 1..(s - 1) : cycles[r].pc # "idle"

HasFreeSlot == \E s \in Slots : cycles[s].pc = "idle"

\* Nothing of the transition controller is in progress or queued.
TransitionIdle ==
    /\ ~isTransitioningBackground
    /\ transitions = <<>>
    /\ zeroTimers = <<>>
    /\ pendingImageForTransition = NoPending

\* Lines 525-538: the call clears the poll timer, captures the flow id and
\* suspends at getWallpaper().  Every cycle already in flight stops being
\* alone.
\* trigger names the caller; solo and calm record that no other cycle is in
\* flight and that the transition controller is at rest.
StartCycle(isInitialLoad, forceRegenerate, trigger) ==
    /\ HasFreeSlot
    /\ cycles' = [s \in Slots |->
          IF s = FreeSlot
          THEN [IdleCycle EXCEPT !.pc = "getWallpaper",
                                 !.isInitialLoad = isInitialLoad,
                                 !.forceRegenerate = forceRegenerate,
                                 !.localFlowId = activeWallpaperFlowId,
                                 !.trigger = trigger,
                                 !.solo = \A r \in Slots : ~InFlight(cycles[r]),
                                 !.calm = TransitionIdle]
          ELSE [cycles[s] EXCEPT !.solo = FALSE]]

ClearTimeout_Forgets(timer) == timer

\* clearTimeout(this._wallpaperCheckTimeoutId), lines 527 and 910: the timer
\* the field names is not pending any more.
ClearTimeout(timer) == "none"

\* Line 527, at the start of updateAndApplyBlurredWallpaper.
ClearPollTimer ==
    /\ wallpaperCheckTimeout' = ClearTimeout(wallpaperCheckTimeout)
    /\ strayPollTimers' = strayPollTimers

ScheduleNextWallpaperCheck_Skips(delay) == UNCHANGED timerVars

\* _scheduleNextWallpaperCheck (909-912): the timer the field names is
\* cleared and the field names the new timer; a timer that was still
\* pending would go on without a name.
ScheduleNextWallpaperCheck(delay) ==
    /\ strayPollTimers' =
          IF ClearTimeout(wallpaperCheckTimeout) = "none" THEN strayPollTimers
          ELSE strayPollTimers + 1
    /\ wallpaperCheckTimeout' = delay

\* All poll timers that are pending.
PendingPollTimers ==
    strayPollTimers + (IF wallpaperCheckTimeout = "none" THEN 0 ELSE 1)

\* replaced records that the invocation scheduled the next check while a
\* poll timer was pending.
Finish(c, sched, superseded) ==
    [c EXCEPT !.pc = "done", !.sched = sched, !.superseded = superseded,
              !.replaced = sched # "none" /\ wallpaperCheckTimeout # "none"]

IssuesFlowId_OnlyOnChange(isInitialLoad, wallpaperChanged) == wallpaperChanged

IssuesFlowId_Always(isInitialLoad, wallpaperChanged) == TRUE

\* Line 567: a new flow id is issued.
IssuesFlowId(isInitialLoad, wallpaperChanged) == ~isInitialLoad \/ wallpaperChanged

ReuseFinal_Never(forceRegenerate, wallpaperChanged, finalExists, isInitialLoad) ==
    FALSE

\* Line 578: the existing final artifact is reused.
ReuseFinal(forceRegenerate, wallpaperChanged, finalExists, isInitialLoad) ==
    ~forceRegenerate /\ ~wallpaperChanged /\ finalExists /\ ~isInitialLoad

NeedsProcessing_IgnoresMissing(forceRegenerate, wallpaperChanged, pExists, fExists) ==
    forceRegenerate \/ wallpaperChanged

\* Line 589.
NeedsProcessing(forceRegenerate, wallpaperChanged, previewExists, finalExists) ==
    forceRegenerate \/ wallpaperChanged \/ ~previewExists \/ ~finalExists

\* Lines 599 and 619: forceGenerateThisImage.
ForceGenerateThisImage(forceRegenerate, wallpaperChanged, exists) ==
    forceRegenerate \/ wallpaperChanged \/ ~exists

DelayAfterPipeline_Error == "error"

\* Lines 585 and 646: the delay the pipeline reschedules with.
DelayAfterPipeline == "success"

DelayAfterError_Success == "success"

\* Lines 531, 543, 561 and 653.
DelayAfterError == "error"

\* _generateBlurredImage up to its first await (658-684): the source is
\* missing (returns false), the output exists and is not forced (returns
\* true), or the transform is invoked.
\* b is the environment budget left when the call is made.  A source the
\* cycle has found missing (c.noSource) is still missing at its next stage.
GenerateStart(s, c, kind, pcName, b) ==
    LET forceThis == ForceGenerateThisImage(c.forceRegenerate, c.wallpaperChanged,
                        IF kind = "preview" THEN c.previewExists ELSE c.finalExists)
    IN  \/ /\ b > 0 \/ c.noSource
           /\ budget' = IF c.noSource THEN b ELSE b - 1
           /\ cycles' = [cycles EXCEPT ![s] =
                 [c EXCEPT !.pc = pcName, !.gen = "false", !.noSource = TRUE]]
        \/ /\ budget' = b
           /\ cycles' = [cycles EXCEPT ![s] =
                 IF ~forceThis /\ Exists(FileOf(kind))
                 THEN [c EXCEPT !.pc = pcName, !.gen = "true"]
                 ELSE [c EXCEPT !.pc = pcName, !.gen = "running",
                                !.transforms = @ + 1]]

\* A call of _applyBackgroundImage by the cycle in slot s, which then awaits
\* the promise at pcName.
CallApply(s, c, kind, f, restore, pcName) ==
    /\ ApplyBackgroundImage(kind, f, c.currentActiveFlowId, restore, s,
                            c.currentActiveFlowId)
    /\ cycles' = [cycles EXCEPT ![s] =
          [c EXCEPT !.pc = pcName,
                    !.applyRes = ApplyResult(kind, f, c.currentActiveFlowId, restore),
                    !.apps = Append(@,
                        [kind |-> kind, flowId |-> c.currentActiveFlowId,
                         outcome |-> ApplyOutcome(kind, f, c.currentActiveFlowId,
                                                  restore)])]]

\* Lines 573-642, from the read of the flow id to the next await.
Decide(s, c0) ==
    LET pe == Exists(previewFile)
        fe == Exists(finalFile)
        c == [c0 EXCEPT !.currentActiveFlowId = activeWallpaperFlowId,
                        !.previewExists = pe, !.finalExists = fe,
                        !.decided = TRUE,
                        !.wasApplied =
                            currentAppliedCssUrl = PathToCssUrl("final", finalFile)]
    IN  IF ReuseFinal(c.forceRegenerate, c.wallpaperChanged, fe, c.isInitialLoad)
        THEN /\ budget' = budget
             /\ IF currentAppliedCssUrl # PathToCssUrl("final", finalFile)
                THEN CallApply(s, [c EXCEPT !.reused = TRUE], "final", finalFile,
                               FALSE, "reuseApply")
                ELSE /\ cycles' = [cycles EXCEPT ![s] =
                           [c EXCEPT !.pc = "reuseOverlay", !.reused = TRUE]]
                     /\ UNCHANGED applyVars
        ELSE IF NeedsProcessing(c.forceRegenerate, c.wallpaperChanged, pe, fe)
        THEN /\ GenerateStart(s, c, "preview", "genPreview", budget)
             /\ UNCHANGED applyVars
        ELSE IF c.isInitialLoad
        THEN /\ budget' = budget
             /\ CallApply(s, c, IF fe THEN "final" ELSE "preview",
                          IF fe THEN finalFile ELSE previewFile, TRUE,
                          "restoreApply")
        ELSE /\ budget' = budget
             /\ cycles' = [cycles EXCEPT ![s] = [c EXCEPT !.pc = "overlay"]]
             /\ UNCHANGED applyVars

\* getWallpaper() rejects: the catch block (649-655).
GetWallpaperThrows(s) ==
    LET c == cycles[s]
        current == c.localFlowId = activeWallpaperFlowId
    IN  /\ c.pc = "getWallpaper"
        /\ CanStep(s)
        /\ budget > 0
        /\ budget' = budget - 1
        /\ IF current THEN ScheduleNextWallpaperCheck(DelayAfterError)
           ELSE UNCHANGED timerVars
        /\ cycles' = [cycles EXCEPT ![s] =
              Finish(c, IF current THEN DelayAfterError ELSE "none", FALSE)]
        /\ UNCHANGED <<wallpaper, screen, dmNotify, diskVars, flowVars, applyVars,
                       zeroTimers, initPc, harnessVars>>

\* getWallpaper() yields no path (539-544).
GetWallpaperNull(s) ==
    LET c == cycles[s]
    IN  /\ c.pc = "getWallpaper"
        /\ CanStep(s)
        /\ budget > 0
        /\ budget' = budget - 1
        /\ ScheduleNextWallpaperCheck(DelayAfterError)
        /\ cycles' = [cycles EXCEPT ![s] = Finish(c, DelayAfterError, FALSE)]
        /\ UNCHANGED <<wallpaper, screen, dmNotify, diskVars, flowVars, applyVars,
                       zeroTimers, initPc, harnessVars>>

\* getWallpaper() yields the current wallpaper: lines 546-572, and 573-642
\* when nothing is saved.
GetWallpaperResolves(s) ==
    LET c0 == cycles[s]
        p == wallpaper
        lk == UpdateLastKnownScreenDimensions(lastKnownScreenDimensions, screen)
        changed == p # currentOriginalWallpaperPath
        c == [c0 EXCEPT !.newOriginalPath = p, !.wallpaperChanged = changed,
                        !.screenSize = screen]
    IN  /\ c0.pc = "getWallpaper"
        /\ CanStep(s)
        /\ UNCHANGED <<wallpaper, screen, dmNotify, previewFile, finalFile, mtime,
                       zeroTimers, initPc, harnessVars>>
        /\ IF c0.localFlowId # activeWallpaperFlowId /\ ~c0.isInitialLoad
           THEN /\ cycles' = [cycles EXCEPT ![s] = Finish(c0, "none", TRUE)]
                /\ UNCHANGED <<budget, meta, flowVars, applyVars,
                               timerVars>>
           ELSE /\ currentScreenBounds' = screen
                /\ lastKnownScreenDimensions' = lk
                /\ IF screen <= 0
                   THEN /\ ScheduleNextWallpaperCheck(DelayAfterError)
                        /\ cycles' = [cycles EXCEPT ![s] =
                              Finish(c, DelayAfterError, FALSE)]
                        /\ UNCHANGED <<budget, meta, currentOriginalWallpaperPath,
                                       activeWallpaperFlowId, applyVars>>
                   ELSE IF changed \/ c.forceRegenerate
                   THEN /\ activeWallpaperFlowId' =
                              IF IssuesFlowId(c.isInitialLoad, changed)
                              THEN activeWallpaperFlowId + 1
                              ELSE activeWallpaperFlowId
                        /\ currentOriginalWallpaperPath' = p
                        /\ meta' = Metadata(p, lk)
                        /\ cycles' = [cycles EXCEPT ![s] =
                              [c EXCEPT !.pc = "saveMeta",
                                        !.issued = IF IssuesFlowId(c.isInitialLoad, changed)
                                                   THEN 1 ELSE 0]]
                        /\ UNCHANGED <<budget, applyVars, timerVars>>
                   ELSE /\ Decide(s, c)
                        /\ UNCHANGED <<meta, currentOriginalWallpaperPath,
                                       activeWallpaperFlowId, timerVars>>

\* The metadata write of line 571 completes: lines 573-642.
MetadataSaved(s) ==
    /\ cycles[s].pc = "saveMeta"
    /\ CanStep(s)
    /\ Decide(s, cycles[s])
    /\ UNCHANGED <<wallpaper, screen, dmNotify, diskVars, flowVars,
                   timerVars, zeroTimers, initPc, harnessVars>>

\* The file the transform writes for cycle c (682-688).
Generated(c) ==
    [src |-> c.newOriginalPath, size |-> c.screenSize, ver |-> mtime + 1]

\* The preview stage ends: _generateBlurredImage returns (686-697) and the
\* cycle continues with lines 602-620.  ok is the transform's outcome when
\* it was invoked.
PreviewGenerated(s, ok) ==
    LET c0 == cycles[s]
        ran == c0.gen = "running"
        generated == IF ran THEN ok ELSE c0.gen = "true"
        pf == IF ran /\ ok THEN Generated(c0) ELSE previewFile
        b == IF ran /\ ~ok THEN budget - 1 ELSE budget
        c == [c0 EXCEPT !.gen = "none", !.genFailed = @ \/ (ran /\ ~ok)]
    IN  /\ c0.pc = "genPreview"
        /\ CanStep(s)
        /\ ran \/ ok
        /\ ok \/ budget > 0
        /\ previewFile' = pf
        /\ mtime' = IF ran /\ ok THEN mtime + 1 ELSE mtime
        /\ IF c.currentActiveFlowId # activeWallpaperFlowId
           THEN /\ cycles' = [cycles EXCEPT ![s] = Finish(c, "none", TRUE)]
                /\ budget' = b
                /\ UNCHANGED applyVars
           ELSE IF generated /\ Exists(pf)
           THEN /\ CallApply(s, [c EXCEPT !.previewAppliedInThisFlow = TRUE],
                             "preview", pf, FALSE, "applyPreview")
                /\ budget' = b
           ELSE /\ GenerateStart(s, c, "final", "genFinal", b)
                /\ UNCHANGED applyVars
        /\ UNCHANGED <<wallpaper, screen, dmNotify, meta, finalFile, flowVars,
                       timerVars, zeroTimers, initPc, harnessVars>>

\* The promise of line 605 is resolved: lines 613-620.
PreviewApplied(s) ==
    LET c == [cycles[s] EXCEPT !.applyRes = "none"]
    IN  /\ cycles[s].pc = "applyPreview"
        /\ CanStep(s)
        /\ cycles[s].applyRes \in {"true", "false", "rejected"}
        /\ IF c.currentActiveFlowId # activeWallpaperFlowId
           THEN /\ cycles' = [cycles EXCEPT ![s] = Finish(c, "none", TRUE)]
                /\ budget' = budget
           ELSE GenerateStart(s, c, "final", "genFinal", budget)
        /\ UNCHANGED <<wallpaper, screen, dmNotify, diskVars, flowVars, applyVars,
                       timerVars, zeroTimers, initPc, harnessVars>>

\* The final stage ends: lines 622-635 and 644-645.
FinalGenerated(s, ok) ==
    LET c0 == cycles[s]
        ran == c0.gen = "running"
        generated == IF ran THEN ok ELSE c0.gen = "true"
        ff == IF ran /\ ok THEN Generated(c0) ELSE finalFile
        c == [c0 EXCEPT !.gen = "none", !.genFailed = @ \/ (ran /\ ~ok)]
    IN  /\ c0.pc = "genFinal"
        /\ CanStep(s)
        /\ ran \/ ok
        /\ ok \/ budget > 0
        /\ budget' = IF ran /\ ~ok THEN budget - 1 ELSE budget
        /\ finalFile' = ff
        /\ mtime' = IF ran /\ ok THEN mtime + 1 ELSE mtime
        /\ IF c.currentActiveFlowId # activeWallpaperFlowId
           THEN /\ cycles' = [cycles EXCEPT ![s] = Finish(c, "none", TRUE)]
                /\ UNCHANGED applyVars
           ELSE IF generated /\ Exists(ff)
           THEN CallApply(s, c, "final", ff, FALSE, "applyFinal")
           ELSE /\ cycles' = [cycles EXCEPT ![s] = [c EXCEPT !.pc = "overlay"]]
                /\ IF ~c.previewAppliedInThisFlow /\ ~destroyed
                   THEN /\ backgroundImage' = NoneUrl
                        /\ currentAppliedCssUrl' = NoneUrl
                        /\ cssTransitionRunning' =
                              (cssTransitionRunning \/ backgroundImage.kind \in Kinds)
                        /\ visible' = [NoVisible EXCEPT
                              !.kind = "none",
                              !.blankedOver = currentAppliedCssUrl.kind]
                        /\ UNCHANGED <<lastAppliedImagePath,
                                       isTransitioningBackground,
                                       pendingImageForTransition,
                                       overlayColor, transitions,
                                       assignedWhileTransitioning,
                                       transitionsStarted>>
                   ELSE UNCHANGED applyVars
        /\ UNCHANGED <<wallpaper, screen, dmNotify, meta, previewFile, flowVars,
                       timerVars, zeroTimers, initPc, harnessVars>>

\* The promise of line 625 is resolved: _saveMetadata is called (626).
FinalApplied(s) ==
    /\ cycles[s].pc = "applyFinal"
    /\ CanStep(s)
    /\ cycles[s].applyRes \in {"true", "false", "rejected"}
    /\ meta' = Metadata(currentOriginalWallpaperPath, lastKnownScreenDimensions)
    /\ cycles' = [cycles EXCEPT ![s] = [@ EXCEPT !.pc = "saveMeta2",
                                                 !.applyRes = "none"]]
    /\ UNCHANGED <<envVars, previewFile, finalFile, mtime, flowVars, applyVars,
                   timerVars, zeroTimers, initPc, harnessVars>>

\* Line 644, reached after the metadata write of 626 or after the restore of
\* 638/640: only the current flow goes on to the overlay and the reschedule.
PipelineEnds(s) ==
    LET c == [cycles[s] EXCEPT !.applyRes = "none"]
    IN  /\ CanStep(s)
        /\ \/ c.pc = "saveMeta2"
           \/ c.pc = "restoreApply" /\ cycles[s].applyRes \in {"true", "false", "rejected"}
        /\ cycles' = [cycles EXCEPT ![s] =
              IF c.currentActiveFlowId = activeWallpaperFlowId
              THEN [c EXCEPT !.pc = "overlay"]
              ELSE Finish(c, "none", TRUE)]
        /\ UNCHANGED <<envVars, diskVars, flowVars, applyVars,
                       timerVars, zeroTimers, initPc, harnessVars>>

\* _updateOverlayBasedOnCurrentPosition returns (645): line 646.
OverlayUpdated(s) ==
    /\ cycles[s].pc = "overlay"
    /\ CanStep(s)
    /\ ScheduleNextWallpaperCheck(DelayAfterPipeline)
    /\ cycles' = [cycles EXCEPT ![s] = Finish(@, DelayAfterPipeline, FALSE)]
    /\ overlayColor' = OverlayAfterUpdate(lastAppliedImagePath, overlayColor)
    /\ UNCHANGED <<envVars, diskVars, flowVars, imageVars, zeroTimers, initPc,
                   harnessVars>>

\* The await of line 581 or 583 returns: lines 585-586.
ReuseDone(s) ==
    /\ CanStep(s)
    /\ \/ cycles[s].pc = "reuseOverlay"
       \/ cycles[s].pc = "reuseApply" /\ cycles[s].applyRes \in {"true", "false", "rejected"}
    /\ ScheduleNextWallpaperCheck(DelayAfterPipeline)
    /\ cycles' = [cycles EXCEPT ![s] =
          Finish([@ EXCEPT !.applyRes = "none"], DelayAfterPipeline, FALSE)]
    /\ overlayColor' =
          IF cycles[s].pc = "reuseOverlay"
          THEN OverlayAfterUpdate(lastAppliedImagePath, overlayColor)
          ELSE overlayColor
    /\ UNCHANGED <<envVars, diskVars, flowVars, imageVars, zeroTimers, initPc,
                   harnessVars>>

\* The invocation has returned; its record is dropped.
Retire(s) ==
    /\ cycles[s].pc = "done"
    /\ cycles' = [cycles EXCEPT ![s] = IdleCycle]
    /\ UNCHANGED <<envVars, diskVars, flowVars, applyVars,
                   timerVars, zeroTimers, initPc, harnessVars>>

\* ------------------------------------------------------ _initialize (251-294)
\* Lines 265-289: the metadata is loaded, the window state read, the
\* listeners registered, and the cache restored if the recorded source
\* still exists.  srcExists is fs.existsSync of the recorded source (277).
RestoresFinal_Never(srcExists) == FALSE

RestoresFinal_IgnoresSource(srcExists) == Exists(finalFile)

\* Lines 277-278.
RestoresFinal(srcExists) == srcExists /\ Exists(finalFile)

\* Lines 277 and 281.
RestoresPreview(srcExists) == srcExists /\ Exists(previewFile)

Initialize(srcExists) ==
    LET cur0 == meta.path
        lk == UpdateLastKnownScreenDimensions(meta.dims, screen)
    IN  /\ initPc = "start"
        /\ NoUrgent
        /\ cur0 = NoPath => ~srcExists
        /\ cur0 = wallpaper => srcExists
        /\ currentOriginalWallpaperPath' = cur0
        /\ lastKnownScreenDimensions' = lk
        /\ currentScreenBounds' = screen
        /\ startup' = [ran |-> TRUE, metaAbsent |-> meta = NoMeta,
                       identity |-> cur0,
                       cold |-> srcExists /\ Exists(finalFile)]
        /\ IF RestoresFinal(srcExists)
           THEN /\ ApplyBackgroundImage("final", finalFile, activeWallpaperFlowId,
                                        TRUE, InitWaiter, activeWallpaperFlowId)
                /\ initPc' = "restoreFinal"
                /\ UNCHANGED <<cycles, timerVars>>
           ELSE IF RestoresPreview(srcExists)
           THEN /\ ApplyBackgroundImage("preview", previewFile,
                                        activeWallpaperFlowId, TRUE, InitWaiter,
                                        activeWallpaperFlowId)
                /\ initPc' = "restorePreview"
                /\ UNCHANGED <<cycles, timerVars>>
           ELSE /\ StartCycle(TRUE, TRUE, "init")
                /\ ClearPollTimer
                /\ initPc' = "done"
                /\ UNCHANGED applyVars
        /\ UNCHANGED <<envVars, diskVars, activeWallpaperFlowId, zeroTimers,
                       reqLeft, reqLog, destroyed, callVars>>

\* The restore of line 279 or 282 is resolved: line 283 for the preview,
\* then the await of line 291.
InitRestored ==
    /\ NoUrgent
    /\ initPc \in {"restoredFinal", "restoredPreview"}
    /\ IF initPc = "restoredPreview"
       THEN /\ StartCycle(TRUE, FALSE, "init")
            /\ ClearPollTimer
       ELSE UNCHANGED <<cycles, timerVars>>
    /\ initPc' = "overlay"
    /\ UNCHANGED <<envVars, diskVars, flowVars, applyVars, zeroTimers,
                   harnessVars>>

\* Line 292.
InitSchedules ==
    /\ NoUrgent
    /\ initPc = "overlay"
    /\ ScheduleNextWallpaperCheck(DelayAfterPipeline)
    /\ initPc' = "done"
    /\ overlayColor' = OverlayAfterUpdate(lastAppliedImagePath, overlayColor)
    /\ UNCHANGED <<envVars, diskVars, flowVars, imageVars, zeroTimers, cycles,
                   harnessVars>>

\* ------------------------------------------------------- timers and events
\* A poll timer fires (911): updateAndApplyBlurredWallpaper().  It is the
\* timer the field names, or one that goes on without a name; line 527 then
\* clears the timer the field names.
PollTimerFires ==
    /\ NoUrgent
    /\ StartCycle(FALSE, FALSE, "poll")
    /\ \/ /\ wallpaperCheckTimeout # "none"
          /\ wallpaperCheckTimeout' = "none"
          /\ strayPollTimers' = strayPollTimers
       \/ /\ strayPollTimers > 0
          /\ strayPollTimers' = strayPollTimers - 1
          /\ wallpaperCheckTimeout' = ClearTimeout(wallpaperCheckTimeout)
    /\ UNCHANGED <<envVars, diskVars, flowVars, applyVars, zeroTimers, initPc,
                   harnessVars>>

\* Line 506.
ResolutionChanged(old, new) == old # new

\* _onDisplayMetricsChange (494-508), once the listeners are registered.
OnDisplayMetricsChange ==
    /\ NoUrgent
    /\ ~destroyed
    /\ dmNotify > 0
    /\ initPc # "start"
    /\ dmNotify' = dmNotify - 1
    /\ currentScreenBounds' = screen
    /\ lastKnownScreenDimensions' =
          UpdateLastKnownScreenDimensions(lastKnownScreenDimensions, screen)
    /\ StartCycle(FALSE, ResolutionChanged(lastKnownScreenDimensions, screen),
                  "metrics")
    /\ ClearPollTimer
    /\ UNCHANGED <<wallpaper, screen, budget, diskVars,
                   currentOriginalWallpaperPath, activeWallpaperFlowId,
                   applyVars, zeroTimers, initPc, harnessVars>>

\* The user changes the desktop wallpaper.
WallpaperChanges ==
    /\ NoUrgent
    /\ budget > 0
    /\ budget' = budget - 1
    /\ \E w \in Wallpapers \ {wallpaper} : wallpaper' = w
    /\ UNCHANGED <<screen, dmNotify, diskVars, flowVars, applyVars,
                   timerVars, zeroTimers, cycles, initPc,
                   harnessVars>>

\* The display that owns the window changes its resolution; the host sends
\* a display-metrics notification if somebody listens.
DisplayChanges ==
    /\ NoUrgent
    /\ budget > 0
    /\ budget' = budget - 1
    /\ \E d \in Sizes \ {screen} : screen' = d
    /\ dmNotify' = IF initPc = "start" \/ destroyed THEN dmNotify
                   ELSE dmNotify + 1
    /\ UNCHANGED <<wallpaper, diskVars, flowVars, applyVars,
                   timerVars, zeroTimers, cycles, initPc,
                   harnessVars>>

\* ------------------------------------------------- display resolution
\* Lines 914-949 and 451.  A rectangle is a record; an undefined bounds
\* property is NoBounds, a null display NoScreen.
MaxScreens == 2

Rect(x, y, width, height) ==
    [defined |-> TRUE, x |-> x, y |-> y, width |-> width, height |-> height]

NoBounds == [defined |-> FALSE, x |-> 0, y |-> 0, width |-> 0, height |-> 0]

Display(bounds, isBuiltIn) ==
    [present |-> TRUE, bounds |-> bounds, isBuiltIn |-> isBuiltIn]

NoScreen == [present |-> FALSE, bounds |-> NoBounds, isBuiltIn |-> FALSE]

DefaultWidth == 1920

DefaultHeight == 1080

\* _getDefaultScreenInfo, lines 945-949: window.screen.width || 1920.
GetDefaultScreenInfo(windowScreen) ==
    Display(Rect(0, 0,
                 IF windowScreen.width # 0 THEN windowScreen.width
                 ELSE DefaultWidth,
                 IF windowScreen.height # 0 THEN windowScreen.height
                 ELSE DefaultHeight),
            FALSE)

\* The loop condition of lines 928-930.
ContainsCentre(s, winCX, winCY) ==
    /\ s.bounds.defined /\ s.bounds.width > 0 /\ s.bounds.height > 0
    /\ winCX >= s.bounds.x /\ winCX < s.bounds.x + s.bounds.width
    /\ winCY >= s.bounds.y /\ winCY < s.bounds.y + s.bounds.height

\* The predicates of the two find() calls of lines 932 and 933.
IsUsableBuiltIn(s) == s.isBuiltIn /\ s.bounds.defined /\ s.bounds.width > 0

HasWidth(s) == s.bounds.defined /\ s.bounds.width > 0

\* Array.prototype.find and the for-of loop: the first of the indices that
\* satisfy the test, 0 when none does.
FirstIndex(hits) ==
    IF hits = {} THEN 0 ELSE CHOOSE i \in hits : \A j \in hits : i <= j

\* Lines 927-934, the NW.js branch.
NwScreenFor(screens, winCX, winCY, windowScreen) ==
    LET all == 1..Len(screens)
        hit == FirstIndex({i \in all :
                              ContainsCentre(screens[i], winCX, winCY)})
        builtIn == FirstIndex({i \in all : IsUsableBuiltIn(screens[i])})
        wide == FirstIndex({i \in all : HasWidth(screens[i])})
    IN  IF Len(screens) = 0 THEN GetDefaultScreenInfo(windowScreen)
        ELSE IF hit # 0 THEN screens[hit]
        ELSE IF builtIn # 0 THEN screens[builtIn]
        ELSE IF wide # 0 THEN screens[wide]
        ELSE screens[1]

\* Lines 935-941, the Electron branch: nearest and primary are what
\* getDisplayNearestPoint and getPrimaryDisplay return.
ElectronScreenFor(nearest, primary, windowScreen) ==
    LET activeScreen ==
            IF \/ ~nearest.present
               \/ ~nearest.bounds.defined
               \/ nearest.bounds.width <= 0
               \/ nearest.bounds.height <= 0
            THEN primary
            ELSE nearest
    IN  IF activeScreen.present THEN activeScreen
        ELSE GetDefaultScreenInfo(windowScreen)

\* _getCurrentScreenForWindow, lines 914-943.  g holds the runtime, the
\* bounds passed in, the bounds read again at lines 917-919 and what the
\* platform reports.
GetCurrentScreenForWindow(g) ==
    LET missing == ~g.windowBounds.defined
        wb == IF missing /\ g.runtimeEnv # "none" THEN g.reread
              ELSE g.windowBounds
        winCX == wb.x + wb.width \div 2
        winCY == wb.y + wb.height \div 2
    IN  IF missing /\ (~wb.defined \/ wb.width <= 0)
        THEN GetDefaultScreenInfo(g.windowScreen)
        ELSE IF g.runtimeEnv = "nwjs"
        THEN NwScreenFor(g.screens, winCX, winCY, g.windowScreen)
        ELSE IF g.runtimeEnv = "electron"
        THEN ElectronScreenFor(g.nearest, g.primary, g.windowScreen)
        ELSE GetDefaultScreenInfo(g.windowScreen)

NoGeometryCall ==
    [runtimeEnv |-> "none", windowBounds |-> NoBounds, reread |-> NoBounds,
     screens |-> <<>>, nearest |-> NoScreen, primary |-> NoScreen,
     windowScreen |-> [width |-> 0, height |-> 0],
     pc |-> "none", resolved |-> NoBounds]

\* _updateWindowState, lines 450-451: the display returned is never null,
\* so _currentScreenBounds becomes its bounds property.
UpdateWindowState ==
    /\ initPc = "geometry"
    /\ geometry.pc = "call"
    /\ geometry' = [geometry EXCEPT
                       !.resolved = GetCurrentScreenForWindow(geometry).bounds,
                       !.pc = "returned"]
    /\ UNCHANGED <<envVars, diskVars, flowVars, applyVars, timerVars,
                   zeroTimers, cycles, initPc, reqLeft, reqLog, destroyed,
                   startup, dynamicOverlay, win, sampler, view>>

\* ------------------------------------------------------- overlay alpha
\* Lines 813-823.  minAlpha and maxAlpha are in ten-thousandths; the alpha
\* computed is kept exactly, as a numerator over Span(o) ten-thousandths.
Span(o) ==
    IF o.brightnessThresholdHigh > o.brightnessThresholdLow
    THEN o.brightnessThresholdHigh - o.brightnessThresholdLow
    ELSE 1

Interpolate_Inverted(o, extremeBrightness) ==
    IF o.realMode
    THEN o.minAlpha * Span(o) + (o.maxAlpha - o.minAlpha)
                                * (extremeBrightness - o.brightnessThresholdLow)
    ELSE o.maxAlpha * Span(o) - (o.maxAlpha - o.minAlpha)
                                * (extremeBrightness - o.brightnessThresholdLow)

\* Lines 818-819: ratio = (brightness - low) / (high - low).
Interpolate(o, extremeBrightness) ==
    IF o.realMode
    THEN o.maxAlpha * Span(o) - (o.maxAlpha - o.minAlpha)
                                * (extremeBrightness - o.brightnessThresholdLow)
    ELSE o.minAlpha * Span(o) + (o.maxAlpha - o.minAlpha)
                                * (extremeBrightness - o.brightnessThresholdLow)

\* Lines 815-820.
AlphaFor(o, extremeBrightness) ==
    IF extremeBrightness <= o.brightnessThresholdLow
    THEN (IF o.realMode THEN o.maxAlpha ELSE o.minAlpha) * Span(o)
    ELSE IF extremeBrightness >= o.brightnessThresholdHigh
    THEN (IF o.realMode THEN o.minAlpha ELSE o.maxAlpha) * Span(o)
    ELSE Interpolate(o, extremeBrightness)

MathMax(a, b) == IF a >= b THEN a ELSE b

MathMin(a, b) == IF a <= b THEN a ELSE b

\* Line 821: Math.max(minAlpha, Math.min(maxAlpha, alpha)).
ClampAlpha(o, alpha) ==
    MathMax(o.minAlpha * Span(o), MathMin(o.maxAlpha * Span(o), alpha))

\* Line 822, alpha.toFixed(3): the nearest thousandth of a non-negative
\* alpha, given in thousandths.
ToFixed3(o, alpha) == (2 * alpha + 10 * Span(o)) \div (20 * Span(o))

NoOverlayCall ==
    [minAlpha |-> 0, maxAlpha |-> 0, brightnessThresholdLow |-> 0,
     brightnessThresholdHigh |-> 0, realMode |-> TRUE, pc |-> "none",
     extremeBrightness |-> 0, alpha |-> 0, applied |-> 0,
     cause |-> "none", color |-> 0]

\* Lines 799 and 827: the alpha for the active mode when nothing is sampled.
DefaultAlpha(o) == IF o.realMode THEN o.maxAlpha ELSE o.minAlpha

\* Why a call cannot sample: no applied image (798), unusable window bounds
\* (803), unusable display bounds (805), and the rejections of
\* _getExtremeBrightnessFromWindowRegion: image load error (895), zero-size
\* image (845), no canvas context (850), pixel read-back error (888).
ReturnsEarly == {"windowBounds", "screenBounds"}
SamplerRejects == {"imageError", "zeroSize", "noContext", "readBack"}

BrightnessSamples == {0, 1, 69, 70, 71, 100, 101, 125, 179, 180, 181, 254, 255}

\* Lines 808-822 for a brightness the sampler returned: the alpha computed
\* and the alpha written into the overlay colour.
UpdateOverlayBasedOnCurrentPosition(extremeBrightness) ==
    LET alpha == ClampAlpha(dynamicOverlay,
                            AlphaFor(dynamicOverlay, extremeBrightness))
    IN  /\ initPc = "dynamicOverlay"
        /\ dynamicOverlay.pc # "none"
        /\ dynamicOverlay' =
              [dynamicOverlay EXCEPT
                  !.extremeBrightness = extremeBrightness,
                  !.alpha = alpha,
                  !.applied = ToFixed3(dynamicOverlay, alpha),
                  !.color = 10 * ToFixed3(dynamicOverlay, alpha),
                  !.cause = "none",
                  !.pc = "applied"]
        /\ UNCHANGED <<envVars, diskVars, flowVars, applyVars, timerVars,
                       zeroTimers, cycles, initPc, reqLeft, reqLog, destroyed,
                       startup, geometry, win, sampler, view>>

\* A call of _updateOverlayBasedOnCurrentPosition (787-829), overlay enabled,
\* that gets no brightness: lines 798-805 and the catch of 824-828.  color is
\* the alpha in the overlay's background colour, in ten-thousandths.
UpdateOverlayWithoutSample(cause) ==
    /\ initPc = "dynamicOverlay"
    /\ dynamicOverlay.pc # "none"
    /\ dynamicOverlay' =
          [dynamicOverlay EXCEPT
              !.cause = cause,
              !.color = IF cause \in ReturnsEarly THEN @
                        ELSE DefaultAlpha(dynamicOverlay),
              !.pc = IF cause \in ReturnsEarly THEN "returned" ELSE "default"]
    /\ UNCHANGED <<envVars, diskVars, flowVars, applyVars, timerVars,
                   zeroTimers, cycles, initPc, reqLeft, reqLog, destroyed,
                   startup, geometry, win, sampler, view>>

\* ------------------------------------------- window state and debounce
\* state is what nwWin.state / the main process would report now; notices
\* are notifications not yet delivered; awaiting are the handlers suspended
\* in the IPC calls of _updateWindowState (442-444), oldest first; timers
\* counts the pending move-update timers and moveUpdateTimeoutId tells
\* whether the one the field names is pending; log records the move/resize
\* notifications delivered and what each timer did when it fired.
NoWindow ==
    [pc |-> "none", runtimeEnv |-> "none", imageApplied |-> FALSE,
     state |-> "normal", isMaximized |-> FALSE, isFullScreen |-> FALSE,
     viewportFlush |-> FALSE, notices |-> [state |-> 0, bounds |-> 0],
     awaiting |-> <<>>, timers |-> 0, moveUpdateTimeoutId |-> "none",
     log |-> <<>>, left |-> 0]

WindowStates == {"normal", "maximized", "fullscreen"}

\* Lines 437-438 and 442-443: the fields after the window has been read.
ObservedWindow(w) ==
    [w EXCEPT !.isMaximized = w.state = "maximized",
              !.isFullScreen = w.state = "fullscreen"]

\* _updateViewportStyles (461-469): margin 0, no shadow and radius 0 when
\* maximized or fullscreen, else 5px, the shadow and the configured radius.
UpdateViewportStyles(w) ==
    [w EXCEPT !.viewportFlush = w.isMaximized \/ w.isFullScreen]

\* Lines 486-487: the timer the field names is cleared and a new one set.
ArmMoveUpdateTimeout(w) ==
    [w EXCEPT !.timers = IF w.moveUpdateTimeoutId = "pending"
                         THEN w.timers ELSE w.timers + 1,
              !.moveUpdateTimeoutId = "pending"]

\* The rest of a handler once _updateWindowState has returned: 456-458 for
\* a state change, 485-491 for a move or resize, nothing for the poll (550).
AfterWindowState(w, handler) ==
    IF handler = "state" THEN UpdateViewportStyles(ObservedWindow(w))
    ELSE IF handler = "bounds" THEN ArmMoveUpdateTimeout(ObservedWindow(w))
    ELSE ObservedWindow(w)

\* A handler starts: under NW.js _updateWindowState reads the window
\* synchronously and the handler goes on in the same turn; under Electron
\* it is suspended in the IPC calls.
StartHandler(w, handler) ==
    IF w.runtimeEnv = "nwjs" THEN AfterWindowState(w, handler)
    ELSE [w EXCEPT !.awaiting = Append(@, handler)]

WindowStep(w) ==
    /\ initPc = "window"
    /\ win' = w
    /\ UNCHANGED <<envVars, diskVars, flowVars, applyVars, timerVars,
                   zeroTimers, cycles, initPc, reqLeft, reqLog, destroyed,
                   startup, geometry, dynamicOverlay, sampler,
                   view>>

\* The user maximizes, restores or toggles fullscreen: the window manager
\* reports the state change and the resize it comes with (409-415, 422-427).
WindowStateChanges(st) ==
    /\ win.left > 0
    /\ st # win.state
    /\ WindowStep([win EXCEPT !.state = st, !.left = @ - 1,
                              !.notices.state = @ + 1,
                              !.notices.bounds = @ + 1])

\* The user moves or resizes the window (414-415, 425-431).
WindowMoves ==
    /\ win.left > 0
    /\ WindowStep([win EXCEPT !.left = @ - 1, !.notices.bounds = @ + 1])

\* _handleWindowStateChange (454-459) is invoked.
HandleWindowStateChange ==
    /\ win.notices.state > 0
    /\ WindowStep(StartHandler([win EXCEPT !.notices.state = @ - 1], "state"))

\* _onWindowBoundsChange (483-492) is invoked.
OnWindowBoundsChange ==
    /\ win.notices.bounds > 0
    /\ WindowStep(StartHandler([win EXCEPT !.notices.bounds = @ - 1,
                                           !.log = Append(@, "notify")],
                               "bounds"))

\* The poll cycle refreshes the window state (550).
PollRefreshes ==
    /\ win.left > 0
    /\ WindowStep(StartHandler([win EXCEPT !.left = @ - 1], "poll"))

\* The main process has answered the oldest suspended handler (442-444).
IpcReplies ==
    /\ win.awaiting # <<>>
    /\ WindowStep(AfterWindowState([win EXCEPT !.awaiting = Tail(@)],
                                   Head(win.awaiting)))

\* A move-update timer fires (487-491): the brightness is computed again
\* only if an image is applied.
MoveUpdateTimeoutFires ==
    /\ win.timers > 0
    /\ WindowStep([win EXCEPT
          !.timers = @ - 1,
          !.moveUpdateTimeoutId = IF win.timers = 1 THEN "fired" ELSE @,
          !.log = Append(@, IF win.imageApplied THEN "recompute" ELSE "skip")])

\* After _initialize has run lines 271-274 on a window in its normal state.
WindowStarts ==
    {[NoWindow EXCEPT !.pc = "listening", !.runtimeEnv = e,
                      !.imageApplied = b, !.left = MaxWindowEvents] :
        e \in {"nwjs", "electron"}, b \in BOOLEAN}

\* ------------------------------------------------ brightness sampling
\* Lines 76 and 80: the default reduction ratios, in hundredths.
PreviewQualityFactor == 10
ImageProcessingZipRate == 25

\* Lines 598 and 618: the ratio _generateBlurredImage is given for an
\* artifact, which ImageBlurProcessor (685) applies to the target size.
GeneratedWith(kind) ==
    IF kind = "preview" THEN PreviewQualityFactor ELSE ImageProcessingZipRate

\* Math.round(v * zipRate) for an integer v and a ratio in hundredths:
\* the nearest integer, a half rounding towards plus infinity.
RoundScaled(v, zipRate) == (2 * v * zipRate + 100) \div 200

\* Lines 854-857: the window's content rectangle in display coordinates.
ContentX(c) == c.windowBounds.x - c.screenBoundsOfWindow.x + c.currentPadding
ContentY(c) ==
    c.windowBounds.y - c.screenBoundsOfWindow.y + c.currentPadding
        + c.titleBarHeightOption
ContentW(c) == c.windowBounds.width - 2 * c.currentPadding
ContentH(c) ==
    c.windowBounds.height - 2 * c.currentPadding - c.titleBarHeightOption

\* Lines 862-863: Math.max(0, Math.min(s, limit)).
ClampOrigin(s, limit) == MathMax(0, MathMin(s, limit))

ClampExtent_NoOrigin(s, origin, limit) == MathMax(0, MathMin(s, limit))

\* Lines 864-865: Math.floor(Math.max(0, Math.min(s, limit - origin))), of
\* integers.
ClampExtent(s, origin, limit) == MathMax(0, MathMin(s, limit - origin))

\* Lines 867, 870, 874, 883: what is resolved when nothing is sampled.
Sentinel(c) == IF c.lightModeForSampling THEN 0 ELSE 255

NoSamplerCall ==
    [pc |-> "none", image |-> "null",
     windowBounds |-> [x |-> 0, y |-> 0, width |-> 0, height |-> 0],
     screenBoundsOfWindow |-> [x |-> 0, y |-> 0],
     currentPadding |-> 0, titleBarHeightOption |-> 0,
     lightModeForSampling |-> FALSE, zipRate |-> 0,
     canvas |-> [width |-> 0, height |-> 0],
     sx |-> 0, sy |-> 0, sWidth |-> 0, sHeight |-> 0, result |-> 0]

\* The calls _updateOverlayBasedOnCurrentPosition makes at 808-812: the
\* last applied image, window bounds that passed line 803, the display's
\* origin, the margin 0 or 5, the title-bar height, the mode and the
\* configured imageProcessingZipRate; canvas is the size the image loads
\* with (843).
SamplerCalls ==
    {[NoSamplerCall EXCEPT
         !.pc = "called", !.image = k,
         !.windowBounds = [x |-> wx, y |-> wy, width |-> ww, height |-> wh],
         !.screenBoundsOfWindow = [x |-> dx, y |-> 0],
         !.currentPadding = pad, !.titleBarHeightOption = tb,
         !.lightModeForSampling = light,
         !.zipRate = ImageProcessingZipRate,
         !.canvas = [width |-> cw, height |-> ch]] :
        k \in Kinds, wx \in {-12, -4, 0, 6, 14, 30}, wy \in {-8, 0, 7, 20},
        ww \in {1, 8, 16, 40}, wh \in {1, 10, 24}, dx \in {0, 4},
        pad \in {0, 5}, tb \in {0, 3}, light \in BOOLEAN,
        cw \in {0, 4, 6}, ch \in {3, 5}}

\* img.onload of _getExtremeBrightnessFromWindowRegion (841-891) for an
\* image that loaded: the rejection of 844-847, the rectangle of 854-865,
\* the sentinel of 866-870, else the read-back of 872 and the scan of
\* 873-884, whose extreme is extremeBrightness.
GetExtremeBrightnessFromWindowRegion(extremeBrightness) ==
    LET c == sampler
        sx == ClampOrigin(RoundScaled(ContentX(c), c.zipRate), c.canvas.width)
        sy == ClampOrigin(RoundScaled(ContentY(c), c.zipRate), c.canvas.height)
        sWidth == ClampExtent(RoundScaled(ContentW(c), c.zipRate), sx,
                              c.canvas.width)
        sHeight == ClampExtent(RoundScaled(ContentH(c), c.zipRate), sy,
                               c.canvas.height)
    IN  /\ initPc = "sampler"
        /\ sampler.pc = "called"
        /\ sampler' =
              IF c.canvas.width = 0 \/ c.canvas.height = 0
              THEN [c EXCEPT !.pc = "rejected"]
              ELSE IF sWidth <= 0 \/ sHeight <= 0
              THEN [c EXCEPT !.pc = "sentinel", !.sx = sx, !.sy = sy,
                             !.sWidth = sWidth, !.sHeight = sHeight,
                             !.result = Sentinel(c)]
              ELSE [c EXCEPT !.pc = "readBack", !.sx = sx, !.sy = sy,
                             !.sWidth = sWidth, !.sHeight = sHeight,
                             !.result = extremeBrightness]
        /\ UNCHANGED <<envVars, diskVars, flowVars, applyVars, timerVars,
                       zeroTimers, cycles, initPc, reqLeft, reqLog, destroyed,
                       startup, geometry, dynamicOverlay, win, view>>

\* ------------------------------------- background offset and overlay races
\* actual is the window as the window manager has it; currentWindowBounds,
\* isMaximized, isFullScreen and currentScreenBounds are the fields
\* _updateWindowState writes; invokes are the IPC calls of 442-444 not yet
\* answered, oldest first; frames are the animation-frame callbacks
\* requested and neither run nor cancelled; computing are the calls of
\* _updateOverlayBasedOnCurrentPosition suspended at 808, each with its
\* start number and the arguments it passed; overlay is the call whose
\* colour the overlay shows.
NoTransform == [x |-> 0, y |-> 0, written |-> FALSE]
NoComputation ==
    [no |-> 0, bounds |-> [x |-> 0, y |-> 0], flush |-> FALSE, mode |-> FALSE]

NoView ==
    [pc |-> "none", runtimeEnv |-> "none",
     actual |-> [x |-> 0, y |-> 0, state |-> "normal"],
     currentWindowBounds |-> [x |-> 0, y |-> 0],
     currentScreenBounds |-> [x |-> 0, y |-> 0],
     isMaximized |-> FALSE, isFullScreen |-> FALSE,
     titleBarHeight |-> 0, realMode |-> FALSE,
     invokes |-> <<>>, rAFId |-> 0, frames |-> {}, nextFrame |-> 1,
     transform |-> NoTransform, moveTimer |-> FALSE,
     started |-> 0, computing |-> {}, overlay |-> NoComputation,
     left |-> 0]

ViewPositions == {[x |-> -3, y |-> 2], [x |-> 0, y |-> 0], [x |-> 12, y |-> 4]}

\* Lines 450-451: the origin of the display the window is on, of a
\* display at the origin and one to its right.
ScreenOriginOf(b) ==
    IF b.x >= 10 THEN [x |-> 10, y |-> 0] ELSE [x |-> 0, y |-> 0]

\* Line 514.
Margin(v) == IF v.isMaximized \/ v.isFullScreen THEN 0 ELSE 5

\* Lines 515-516.
Translate(v) ==
    [x |-> 0 - (v.currentWindowBounds.x - v.currentScreenBounds.x + Margin(v)),
     y |-> 0 - (v.currentWindowBounds.y - v.currentScreenBounds.y + Margin(v)
                    + v.titleBarHeight),
     written |-> TRUE]

UpdateBackgroundPosition_NoCancel(v) ==
    [v EXCEPT !.frames = @ \cup {v.nextFrame},
              !.rAFId = v.nextFrame,
              !.nextFrame = @ + 1]

\* _updateBackgroundPosition (510-512): the frame the field names is
\* cancelled and a new one requested; rAFId 0 is null.
UpdateBackgroundPosition(v) ==
    [v EXCEPT !.frames = (@ \ {v.rAFId}) \cup {v.nextFrame},
              !.rAFId = v.nextFrame,
              !.nextFrame = @ + 1]

\* _updateOverlayBasedOnCurrentPosition up to its await (787-812), with an
\* image applied and usable bounds: the arguments are taken now.
StartOverlayUpdate(v) ==
    [v EXCEPT !.started = @ + 1,
              !.computing = @ \cup
                  {[no |-> v.started + 1, bounds |-> v.currentWindowBounds,
                    flush |-> v.isMaximized \/ v.isFullScreen,
                    mode |-> v.realMode]}]

\* The handler after _updateWindowState: 456-458 (the viewport styles of
\* 456 are in UpdateViewportStyles) and 485-491.
AfterViewState(v, handler) ==
    IF handler = "state" THEN StartOverlayUpdate(UpdateBackgroundPosition(v))
    ELSE [UpdateBackgroundPosition(v) EXCEPT !.moveTimer = TRUE]

\* Lines 450-451 after the bounds are known.
ResolveScreen(v) ==
    [v EXCEPT !.currentScreenBounds = ScreenOriginOf(v.currentWindowBounds)]

\* Lines 436-439 and 450-451 under NW.js: the window is read in one turn.
ReadWindow(v) ==
    ResolveScreen([v EXCEPT
        !.isMaximized = v.actual.state = "maximized",
        !.isFullScreen = v.actual.state = "fullscreen",
        !.currentWindowBounds = [x |-> v.actual.x, y |-> v.actual.y]])

\* A window handler starts (454-455, 483-484): under NW.js it runs to its
\* end, under Electron it is suspended in the first invoke of 442.
StartViewHandler(v, handler) ==
    IF v.runtimeEnv = "nwjs" THEN AfterViewState(ReadWindow(v), handler)
    ELSE [v EXCEPT !.invokes = Append(@, [handler |-> handler, step |-> 1])]

ViewStep(v) ==
    /\ initPc = "view"
    /\ view' = v
    /\ UNCHANGED <<envVars, diskVars, flowVars, applyVars, timerVars,
                   zeroTimers, cycles, initPc, reqLeft, reqLog, destroyed,
                   startup, geometry, dynamicOverlay, win, sampler>>

\* The window is moved and _onWindowBoundsChange (483-492) is invoked.
WindowMovedTo(p) ==
    /\ view.left > 0
    /\ p # [x |-> view.actual.x, y |-> view.actual.y]
    /\ ViewStep(StartViewHandler(
          [view EXCEPT !.left = @ - 1, !.actual.x = p.x, !.actual.y = p.y],
          "bounds"))

\* The window is maximized, restored or made fullscreen and
\* _handleWindowStateChange (454-459) is invoked.
WindowStateChangedTo(st) ==
    /\ view.left > 0
    /\ st # view.actual.state
    /\ ViewStep(StartViewHandler(
          [view EXCEPT !.left = @ - 1, !.actual.state = st], "state"))

\* The main process answers the oldest invoke (442-444); after the third
\* the handler goes on at 450.
IpcAnswers ==
    /\ view.invokes # <<>>
    /\ LET i == Head(view.invokes)
           v == [view EXCEPT !.invokes = Tail(@)]
       IN  ViewStep(
             IF i.step = 1
             THEN [v EXCEPT !.isMaximized = v.actual.state = "maximized",
                            !.invokes = Append(@, [i EXCEPT !.step = 2])]
             ELSE IF i.step = 2
             THEN [v EXCEPT !.isFullScreen = v.actual.state = "fullscreen",
                            !.invokes = Append(@, [i EXCEPT !.step = 3])]
             ELSE AfterViewState(
                    ResolveScreen([v EXCEPT !.currentWindowBounds =
                                      [x |-> v.actual.x, y |-> v.actual.y]]),
                    i.handler))

\* The system theme changes and _updateRealModeAndColor (296-314) runs.
RealModeChanges ==
    /\ view.left > 0
    /\ ViewStep(StartOverlayUpdate(
          [view EXCEPT !.left = @ - 1, !.realMode = ~@]))

\* The move-update timer fires (487-491).
MoveTimerFires ==
    /\ view.moveTimer
    /\ ViewStep(StartOverlayUpdate([view EXCEPT !.moveTimer = FALSE]))

\* A requested frame runs (512-522); both bounds are set since line 271.
AnimationFrameRuns ==
    \E id \in view.frames :
        ViewStep([view EXCEPT !.frames = @ \ {id},
                              !.transform = Translate(view),
                              !.rAFId = 0])

\* The sampler of a suspended call resolves and 813-822 write the colour.
SamplerResolves ==
    \E c \in view.computing :
        ViewStep([view EXCEPT !.computing = @ \ {c}, !.overlay = c])

ViewStarts ==
    {[NoView EXCEPT !.pc = "listening", !.runtimeEnv = e,
                    !.titleBarHeight = tb, !.left = MaxViewEvents] :
        e \in {"nwjs", "electron"}, tb \in {0, 3}}

\* ------------------------------------------------------------ specification
CachedFile == [src |-> "W1", size |-> 1, ver |-> 1]

InstanceInit ==
    /\ currentOriginalWallpaperPath = NoPath
    /\ activeWallpaperFlowId = 0
    /\ lastKnownScreenDimensions = 0
    /\ currentScreenBounds = 0
    /\ backgroundImage = NullUrl
    /\ currentAppliedCssUrl = NullUrl
    /\ lastAppliedImagePath = "null"
    /\ isTransitioningBackground = FALSE
    /\ pendingImageForTransition = NoPending
    /\ overlayColor = NullUrl
    /\ wallpaperCheckTimeout = "none"
    /\ strayPollTimers = 0
    /\ transitions = <<>>
    /\ cssTransitionRunning = FALSE
    /\ zeroTimers = <<>>
    /\ cycles = [s \in Slots |-> IdleCycle]
    /\ visible = NoVisible
    /\ assignedWhileTransitioning = FALSE
    /\ transitionsStarted = 0

\* What an earlier run can have left on disk, with the wallpaper now: a
\* first start, restarts with the whole cache, with the preview only, with
\* the final only, with the metadata only, a restart after the wallpaper
\* was changed, and a restart with the cache but without readable metadata.
StartScenarios ==
    {[w |-> "W1", m |-> NoMeta, p |-> NoFile, f |-> NoFile],
     [w |-> "W1", m |-> Metadata("W1", 1), p |-> CachedFile, f |-> CachedFile],
     [w |-> "W1", m |-> Metadata("W1", 1), p |-> CachedFile, f |-> NoFile],
     [w |-> "W1", m |-> Metadata("W1", 1), p |-> NoFile, f |-> CachedFile],
     [w |-> "W1", m |-> Metadata("W1", 1), p |-> NoFile, f |-> NoFile],
     [w |-> "W2", m |-> Metadata("W1", 1), p |-> CachedFile, f |-> CachedFile],
     [w |-> "W1", m |-> NoMeta, p |-> CachedFile, f |-> CachedFile]}

\* The state after the constructor.
Init ==
    /\ \E sc \in StartScenarios :
          /\ wallpaper = sc.w
          /\ meta = sc.m
          /\ previewFile = sc.p
          /\ finalFile = sc.f
    /\ screen = 1
    /\ dmNotify = 0
    /\ budget = MaxEnvEvents
    /\ mtime = 1
    /\ InstanceInit
    /\ initPc = "start"
    /\ reqLeft = 0
    /\ reqLog = <<>>
    /\ destroyed = FALSE
    /\ startup = NotStarted
    /\ geometry = NoGeometryCall
    /\ dynamicOverlay = NoOverlayCall
    /\ win = NoWindow
    /\ sampler = NoSamplerCall
    /\ view = NoView

Next ==
    \/ \E b \in BOOLEAN : Initialize(b)
    \/ InitRestored
    \/ InitSchedules
    \/ PollTimerFires
    \/ OnDisplayMetricsChange
    \/ WallpaperChanges
    \/ DisplayChanges
    \/ \E s \in Slots : GetWallpaperThrows(s)
    \/ \E s \in Slots : GetWallpaperNull(s)
    \/ \E s \in Slots : GetWallpaperResolves(s)
    \/ \E s \in Slots : MetadataSaved(s)
    \/ \E s \in Slots, ok \in BOOLEAN : PreviewGenerated(s, ok)
    \/ \E s \in Slots : PreviewApplied(s)
    \/ \E s \in Slots, ok \in BOOLEAN : FinalGenerated(s, ok)
    \/ \E s \in Slots : FinalApplied(s)
    \/ \E s \in Slots : PipelineEnds(s)
    \/ \E s \in Slots : OverlayUpdated(s)
    \/ \E s \in Slots : ReuseDone(s)
    \/ \E s \in Slots : Retire(s)
    \/ TransitionEnd
    \/ SafetyTimeout
    \/ PendingReapply

Spec == Init /\ [][Next]_vars

\* ------------------------------------------ the program without display events
\* The display keeps its resolution; every step of the program is taken
\* eventually: timers fire, transitions end, awaited operations return.
LiveNext ==
    \/ \E b \in BOOLEAN : Initialize(b)
    \/ InitRestored
    \/ InitSchedules
    \/ PollTimerFires
    \/ WallpaperChanges
    \/ \E s \in Slots : GetWallpaperThrows(s)
    \/ \E s \in Slots : GetWallpaperNull(s)
    \/ \E s \in Slots : GetWallpaperResolves(s)
    \/ \E s \in Slots : MetadataSaved(s)
    \/ \E s \in Slots, ok \in BOOLEAN : PreviewGenerated(s, ok)
    \/ \E s \in Slots : PreviewApplied(s)
    \/ \E s \in Slots, ok \in BOOLEAN : FinalGenerated(s, ok)
    \/ \E s \in Slots : FinalApplied(s)
    \/ \E s \in Slots : PipelineEnds(s)
    \/ \E s \in Slots : OverlayUpdated(s)
    \/ \E s \in Slots : ReuseDone(s)
    \/ \E s \in Slots : Retire(s)
    \/ TransitionEnd
    \/ SafetyTimeout
    \/ PendingReapply


Fairness ==
    /\ WF_vars(\E b \in BOOLEAN : Initialize(b))
    /\ WF_vars(InitRestored)
    /\ WF_vars(InitSchedules)
    /\ WF_vars(PollTimerFires)
    /\ WF_vars(SafetyTimeout)
    /\ WF_vars(PendingReapply)
    /\ \A s \in Slots :
          /\ WF_vars(GetWallpaperResolves(s))
          /\ WF_vars(MetadataSaved(s))
          /\ WF_vars(PreviewGenerated(s, TRUE))
          /\ WF_vars(PreviewApplied(s))
          /\ WF_vars(FinalGenerated(s, TRUE))
          /\ WF_vars(FinalApplied(s))
          /\ WF_vars(PipelineEnds(s))
          /\ WF_vars(OverlayUpdated(s))
          /\ WF_vars(ReuseDone(s))
          /\ WF_vars(Retire(s))

LiveSpec == Init /\ [][LiveNext]_vars /\ Fairness

\* ------------------------------------------------ the program with destroy()
\* destroy() (997-1033), called once _initialize has reached the cache
\* restore: the flow id is incremented, the named poll timer cleared, the
\* listeners and the DOM elements removed (a cross-fade of a removed
\* element reports no end), and the recorded identity, the applied path and
\* the applied url are set to null.
Destroy ==
    /\ NoUrgent
    /\ ~destroyed
    /\ initPc \notin {"start", "harness"}
    /\ destroyed' = TRUE
    /\ activeWallpaperFlowId' = activeWallpaperFlowId + 1
    /\ ClearPollTimer
    /\ dmNotify' = 0
    /\ cssTransitionRunning' = FALSE
    /\ currentOriginalWallpaperPath' = NoPath
    /\ lastAppliedImagePath' = "null"
    /\ currentAppliedCssUrl' = NullUrl
    /\ UNCHANGED <<wallpaper, screen, budget, diskVars,
                   lastKnownScreenDimensions, currentScreenBounds,
                   backgroundImage, isTransitioningBackground,
                   pendingImageForTransition, overlayColor, transitions,
                   visible,
                   assignedWhileTransitioning, transitionsStarted, zeroTimers,
                   cycles, initPc, reqLeft, reqLog, startup, callVars>>

\* The display keeps its resolution, as in LiveNext.
DestroyNext == LiveNext \/ Destroy

DestroySpec == Init /\ [][DestroyNext]_vars

\* ------------------------------------------ the transition controller alone
\* A caller requests images with the current flow id, as the cycles do at
\* lines 580, 605 and 625; both artifacts are on disk.
RequestWith(kind, flowId) ==
    /\ initPc = "harness"
    /\ reqLeft > 0
    /\ reqLeft' = reqLeft - 1
    /\ reqLog' = Append(reqLog,
          [kind |-> kind,
           outcome |-> ApplyOutcome(kind, FileOf(kind), flowId, FALSE),
           url |-> PathToCssUrl(kind, FileOf(kind)),
           flowId |-> flowId,
           during |-> IF ApplyOutcome(kind, FileOf(kind), flowId, FALSE) = "start"
                      THEN transitionsStarted + 1
                      ELSE transitionsStarted])
    /\ ApplyBackgroundImage(kind, FileOf(kind), flowId, FALSE, NoWaiter, flowId)
    /\ UNCHANGED <<envVars, diskVars, flowVars, timerVars,
                   zeroTimers, cycles, initPc, destroyed, startup, callVars>>

Request(kind) == RequestWith(kind, activeWallpaperFlowId)

TransInit ==
    /\ wallpaper = "W1"
    /\ meta = Metadata("W1", 1)
    /\ previewFile = CachedFile
    /\ finalFile = CachedFile
    /\ screen = 1
    /\ dmNotify = 0
    /\ budget = 0
    /\ mtime = 1
    /\ InstanceInit
    /\ initPc = "harness"
    /\ reqLeft = MaxRequests
    /\ reqLog = <<>>
    /\ destroyed = FALSE
    /\ startup = NotStarted
    /\ geometry = NoGeometryCall
    /\ dynamicOverlay = NoOverlayCall
    /\ win = NoWindow
    /\ sampler = NoSamplerCall
    /\ view = NoView

TransNext ==
    \/ \E kind \in Kinds : Request(kind)
    \/ TransitionEnd
    \/ SafetyTimeout
    \/ PendingReapply

TransSpec == TransInit /\ [][TransNext]_vars

TransFairSpec ==
    TransSpec /\ WF_vars(SafetyTimeout) /\ WF_vars(PendingReapply)

\* The transition controller with what the cycles do around it: an artifact
\* is generated again (693), a new flow id is issued (568), the display is
\* resolved (450), and a caller may hold a flow id issued earlier.
Rewrite(kind) ==
    /\ initPc = "harness"
    /\ mtime <= MaxRewrites
    /\ mtime' = mtime + 1
    /\ previewFile' = IF kind = "preview"
                      THEN [previewFile EXCEPT !.ver = mtime + 1]
                      ELSE previewFile
    /\ finalFile' = IF kind = "final"
                    THEN [finalFile EXCEPT !.ver = mtime + 1]
                    ELSE finalFile
    /\ UNCHANGED <<envVars, meta, flowVars, applyVars, timerVars, zeroTimers,
                   cycles, initPc, harnessVars>>

Supersede ==
    /\ initPc = "harness"
    /\ activeWallpaperFlowId < MaxSupersedes
    /\ activeWallpaperFlowId' = activeWallpaperFlowId + 1
    /\ UNCHANGED <<envVars, diskVars, currentOriginalWallpaperPath,
                   lastKnownScreenDimensions, currentScreenBounds, applyVars,
                   timerVars, zeroTimers, cycles, initPc, harnessVars>>

ResolveDisplay ==
    /\ initPc = "harness"
    /\ currentScreenBounds # screen
    /\ currentScreenBounds' = screen
    /\ UNCHANGED <<envVars, diskVars, currentOriginalWallpaperPath,
                   activeWallpaperFlowId, lastKnownScreenDimensions, applyVars,
                   timerVars, zeroTimers, cycles, initPc, harnessVars>>

ControllerNext ==
    \/ \E kind \in Kinds : \E flowId \in 0..activeWallpaperFlowId :
          RequestWith(kind, flowId)
    \/ \E kind \in Kinds : Rewrite(kind)
    \/ Supersede
    \/ ResolveDisplay
    \/ TransitionEnd
    \/ SafetyTimeout
    \/ PendingReapply

ControllerSpec == TransInit /\ [][ControllerNext]_vars

\* ------------------------------------------------------------------- claims
\* An invocation that has returned after taking the staleness decision of
\* lines 573-589 and without being superseded.
RanToEnd(c) == c.pc = "done" /\ c.decided /\ ~c.superseded

GenerationFailed(c) == c.genFailed \/ c.noSource

\* C1: whenever an image is assigned to the container, the flow id held by
\* the cycle that handed it over is the last flow id issued.
C1_OnlyLatestFlowVisible == visible.current

\* C2: once the wallpaper stops changing, the container eventually shows,
\* and keeps showing, the final artifact blurred from that wallpaper
\* (LiveSpec: every fault is followed by attempts that succeed).
C2_EventuallyFinalOfNewIdentity ==
    <>[](visible.kind = "final" /\ visible.src = wallpaper)

ForcedAlone(c) ==
    /\ RanToEnd(c)
    /\ c.forceRegenerate
    /\ c.solo
    /\ ~GenerationFailed(c)

\* One flow id issued, two transforms, the preview assigned before the
\* final, both under the issued flow id.
OneFlowTwoStages(c) ==
    /\ c.issued = 1
    /\ c.currentActiveFlowId = c.localFlowId + 1
    /\ c.transforms = 2
    /\ c.apps = <<[kind |-> "preview", flowId |-> c.currentActiveFlowId,
                   outcome |-> "start"],
                  [kind |-> "final", flowId |-> c.currentActiveFlowId,
                   outcome |-> "start"]>>

\* C4, as stated: every forced cycle that ran alone issued one flow id and
\* ran the two stages in order under it.
C4_ForcedCycleTwoStages ==
    \A s \in Slots : ForcedAlone(cycles[s]) => OneFlowTwoStages(cycles[s])

\* C4, amended: so does every forced cycle that ran alone, started while no
\* transition was in progress or queued, and was not an initial load that
\* found the identity unchanged.
C4_ForcedCycleTwoStagesWhenCalm ==
    \A s \in Slots :
        LET c == cycles[s]
        IN  (ForcedAlone(c) /\ c.calm /\ (~c.isInitialLoad \/ c.wallpaperChanged))
                => OneFlowTwoStages(c)

C4_Witness ==
    \E s \in Slots :
        LET c == cycles[s]
        IN  /\ ForcedAlone(c) /\ c.calm /\ (~c.isInitialLoad \/ c.wallpaperChanged)
            /\ OneFlowTwoStages(c)

\* A cycle that found the identity unchanged, nothing forced and both
\* artifacts on disk.
NothingStale(c) ==
    /\ c.pc = "done"
    /\ c.decided
    /\ ~c.forceRegenerate
    /\ ~c.wallpaperChanged
    /\ c.previewExists
    /\ c.finalExists

\* No transform; the final is handed over once if it was not the applied
\* image, and nothing is handed over if it was.
ReusesOnlyIfNeeded(c) ==
    /\ c.transforms = 0
    /\ c.wasApplied => c.apps = <<>>
    /\ ~c.wasApplied => (Len(c.apps) = 1 /\ c.apps[1].kind = "final")

C6_ResolutionChangeRegeneratesFinal ==
    \A s \in Slots :
        LET c == cycles[s]
        IN  (/\ RanToEnd(c)
             /\ c.trigger = "metrics"
             /\ ~c.wallpaperChanged
             /\ ~GenerationFailed(c)
             /\ \A r \in Slots \ {s} : ~InFlight(cycles[r]))
                => finalFile.size = c.screenSize

\* C7: no image is assigned to the container while the transition flag
\* is set.
C7_OneTransitionAtATime == ~assignedWhileTransitioning

\* The last request of the caller.
LastRequest == reqLog[Len(reqLog)]

\* C8: the controller eventually rests for good, idle, with nothing
\* pending and the most recently requested image applied.
C8_BurstConvergesToLatest ==
    <>[](/\ TransitionIdle
         /\ reqLog # <<>> =>
               currentAppliedCssUrl =
                   PathToCssUrl(LastRequest.kind, FileOf(LastRequest.kind)))

\* The caller asked for A while idle and for another image B while A's
\* transition ran, and the controller has come to rest.
TwoRapidRequests ==
    /\ Len(reqLog) = 2
    /\ reqLog[1].outcome = "start"
    /\ reqLog[2].outcome = "queue"
    /\ reqLog[1].kind # reqLog[2].kind
    /\ TransitionIdle

\* C9, as stated: B is applied after a single transition.
C9_SecondRequestCoalesced ==
    TwoRapidRequests =>
        /\ currentAppliedCssUrl = PathToCssUrl(reqLog[2].kind, FileOf(reqLog[2].kind))
        /\ transitionsStarted = 1

\* C9, amended: B is applied after two transitions, the second started
\* after the first ended.
C9_TwoSequentialTransitions ==
    TwoRapidRequests =>
        /\ currentAppliedCssUrl = PathToCssUrl(reqLog[2].kind, FileOf(reqLog[2].kind))
        /\ transitionsStarted = 2
        /\ ~assignedWhileTransitioning

C9_Witness == TwoRapidRequests /\ transitionsStarted = 2

AtRest ==
    /\ wallpaper = "W1"
    /\ meta = NoMeta
    /\ previewFile = NoFile
    /\ finalFile = NoFile
    /\ screen = 1
    /\ dmNotify = 0
    /\ budget = 0
    /\ mtime = 1
    /\ InstanceInit
    /\ reqLeft = 0
    /\ reqLog = <<>>
    /\ destroyed = FALSE
    /\ startup = NotStarted

KnownBounds ==
    {NoBounds} \cup
    {Rect(x, 0, w, h) : x \in {0, 4}, w \in {0, 4}, h \in {0, 4}}

KnownDisplays == {Display(b, i) : b \in KnownBounds, i \in BOOLEAN}

ScreenLists == UNION {[1..n -> KnownDisplays] : n \in 0..MaxScreens}

\* The bounds passed in, for windows centred at 1, 5 and 9 (no known
\* display reaches 9), or none and the bounds read again at lines 917-919.
WindowBoundsCases ==
    {<<wb, NoBounds>> :
        wb \in {Rect(0, 0, 2, 2), Rect(4, 0, 2, 2), Rect(8, 0, 2, 2)}} \cup
    {<<NoBounds, rr>> :
        rr \in {NoBounds, Rect(0, 0, 0, 2), Rect(8, 0, 2, 2)}}

WindowScreens == {[width |-> 0, height |-> 0], [width |-> 4, height |-> 4]}

\* What getDisplayNearestPoint can return, as far as line 937 provides for
\* it, and what getPrimaryDisplay can, as far as line 940 does.
NearestDisplays ==
    {NoScreen, Display(NoBounds, FALSE), Display(Rect(0, 0, 4, 0), FALSE),
     Display(Rect(0, 0, 0, 4), FALSE), Display(Rect(0, 0, 4, 4), FALSE)}

PrimaryDisplays == {NoScreen, Display(Rect(0, 0, 8, 8), FALSE)}

GeometryCall(runtimeEnv, wc, screens, nearest, primary, windowScreen) ==
    [runtimeEnv |-> runtimeEnv, windowBounds |-> wc[1], reread |-> wc[2],
     screens |-> screens, nearest |-> nearest, primary |-> primary,
     windowScreen |-> windowScreen, pc |-> "call", resolved |-> NoBounds]

GeometryCalls ==
    {GeometryCall("nwjs", wc, ss, NoScreen, NoScreen, ws) :
        wc \in WindowBoundsCases, ss \in ScreenLists, ws \in WindowScreens}
    \cup
    {GeometryCall("electron", wc, <<>>, n, p, ws) :
        wc \in WindowBoundsCases, n \in NearestDisplays,
        p \in PrimaryDisplays,
        ws \in WindowScreens}
    \cup
    {GeometryCall("none", wc, <<>>, NoScreen, NoScreen, ws) :
        wc \in WindowBoundsCases, ws \in WindowScreens}

ScreenInit ==
    /\ AtRest
    /\ initPc = "geometry"
    /\ geometry \in GeometryCalls
    /\ dynamicOverlay = NoOverlayCall
    /\ win = NoWindow
    /\ sampler = NoSamplerCall
    /\ view = NoView

ScreenNext == UpdateWindowState

ScreenSpec == ScreenInit /\ [][ScreenNext]_vars

\* minAlpha and maxAlpha in ten-thousandths, the last pair out of order.
AlphaRanges ==
    {<<5000, 7500>>, <<0, 10000>>, <<5000, 5000>>, <<3333, 7777>>,
     <<7500, 5000>>}

\* Low and high thresholds, the last pair out of order.
ThresholdPairs == {<<70, 180>>, <<0, 255>>, <<100, 101>>, <<180, 70>>}

OverlayCalls ==
    {[NoOverlayCall EXCEPT !.minAlpha = a[1], !.maxAlpha = a[2],
                           !.brightnessThresholdLow = t[1],
                           !.brightnessThresholdHigh = t[2],
                           !.realMode = m, !.pc = "call",
                           !.color = IF m THEN a[2] ELSE a[1]] :
        a \in AlphaRanges, t \in ThresholdPairs, m \in BOOLEAN}

AlphaInit ==
    /\ AtRest
    /\ initPc = "dynamicOverlay"
    /\ geometry = NoGeometryCall
    /\ dynamicOverlay \in OverlayCalls
    /\ win = NoWindow
    /\ sampler = NoSamplerCall
    /\ view = NoView

AlphaNext ==
    \/ \E b \in BrightnessSamples : UpdateOverlayBasedOnCurrentPosition(b)
    \/ \E cause \in {"noImage"} \cup ReturnsEarly \cup SamplerRejects :
          UpdateOverlayWithoutSample(cause)

AlphaSpec == AlphaInit /\ [][AlphaNext]_vars

WindowInit ==
    /\ AtRest
    /\ initPc = "window"
    /\ geometry = NoGeometryCall
    /\ dynamicOverlay = NoOverlayCall
    /\ win \in WindowStarts
    /\ sampler = NoSamplerCall
    /\ view = NoView

WindowNext ==
    \/ \E st \in WindowStates : WindowStateChanges(st)
    \/ WindowMoves
    \/ HandleWindowStateChange
    \/ OnWindowBoundsChange
    \/ PollRefreshes
    \/ IpcReplies
    \/ MoveUpdateTimeoutFires

WindowSpec == WindowInit /\ [][WindowNext]_vars

\* A restart with the whole cache of an earlier run on a display of size 1;
\* the display now has either size.
RestartInit ==
    /\ wallpaper = "W1"
    /\ meta = Metadata("W1", 1)
    /\ previewFile = CachedFile
    /\ finalFile = CachedFile
    /\ screen \in ValidSizes
    /\ dmNotify = 0
    /\ budget = MaxEnvEvents
    /\ mtime = 1
    /\ InstanceInit
    /\ initPc = "start"
    /\ reqLeft = 0
    /\ reqLog = <<>>
    /\ destroyed = FALSE
    /\ startup = NotStarted
    /\ geometry = NoGeometryCall
    /\ dynamicOverlay = NoOverlayCall
    /\ win = NoWindow
    /\ sampler = NoSamplerCall
    /\ view = NoView

RestartSpec == RestartInit /\ [][Next]_vars

\* A call of the brightness sampler with the arguments of 808-812.
SamplerInit ==
    /\ AtRest
    /\ initPc = "sampler"
    /\ geometry = NoGeometryCall
    /\ dynamicOverlay = NoOverlayCall
    /\ win = NoWindow
    /\ sampler \in SamplerCalls
    /\ view = NoView

SamplerNext ==
    \E b \in {0, 128, 255} : GetExtremeBrightnessFromWindowRegion(b)

SamplerSpec == SamplerInit /\ [][SamplerNext]_vars

\* The window handlers, the animation frames and the overlay computations
\* of a constructed instance whose image is applied.
ViewInit ==
    /\ AtRest
    /\ initPc = "view"
    /\ geometry = NoGeometryCall
    /\ dynamicOverlay = NoOverlayCall
    /\ win = NoWindow
    /\ sampler = NoSamplerCall
    /\ view \in ViewStarts

ViewNext ==
    \/ \E p \in ViewPositions : WindowMovedTo(p)
    \/ \E st \in WindowStates : WindowStateChangedTo(st)
    \/ IpcAnswers
    \/ RealModeChanges
    \/ MoveTimerFires
    \/ AnimationFrameRuns
    \/ SamplerResolves

ViewSpec == ViewInit /\ [][ViewNext]_vars


\* C11: once an image has been applied (a transition to it has completed),
\* no failing cycle blanks the container: the background image is never set
\* to 'none' over an applied image.
C11_FailuresNeverBlank ==
    ~(visible.kind = "none" /\ visible.blankedOver \in Kinds)

\* The step in which the cycle in slot s returns at line 543 (getWallpaper
\* yielded no path) or at line 561 (the resolved display has a non-positive
\* width or height).
EndsOnBadInput(s) ==
    \/ GetWallpaperNull(s)
    \/ /\ GetWallpaperResolves(s)
       /\ screen <= 0
       /\ cycles[s].localFlowId = activeWallpaperFlowId \/ cycles[s].isInitialLoad

\* C12: a cycle whose getWallpaper yields no path, or whose display has a
\* non-positive size, invokes no transform, issues no flow id, leaves the
\* recorded identity, the metadata, the artifacts and the applied image as
\* they were, and schedules the next check on the error interval; no
\* transform is ever invoked for a non-positive target size.
C12_BadInputIsTransient ==
    /\ [][\A s \in Slots : EndsOnBadInput(s) =>
             /\ cycles'[s].pc = "done"
             /\ cycles'[s].transforms = 0
             /\ cycles'[s].issued = 0
             /\ cycles'[s].sched = DelayAfterError
             /\ wallpaperCheckTimeout' = "error"
             /\ UNCHANGED <<activeWallpaperFlowId, currentOriginalWallpaperPath,
                            meta, previewFile, finalFile, backgroundImage,
                            currentAppliedCssUrl, visible>>]_vars
    /\ [](\A s \in Slots : cycles[s].transforms > 0 => cycles[s].screenSize > 0)
    /\ [](Exists(previewFile) => previewFile.size > 0)
    /\ [](Exists(finalFile) => finalFile.size > 0)

\* A cycle has returned at line 561: the display it resolved has size 0.
C12_Witness ==
    \E s \in Slots :
        /\ cycles[s].pc = "done"
        /\ cycles[s].newOriginalPath # NoPath
        /\ cycles[s].screenSize = 0
        /\ cycles[s].sched = "error"
        /\ wallpaperCheckTimeout = "error"

\* C13: once _initialize has returned, in every state a cycle is in flight
\* or a poll timer is pending: a cycle that returns without scheduling the
\* next check (lines 547, 602, 613, 622, 644, 652) leaves the cycle that
\* superseded it in flight or that cycle's timer pending.
C13_PollingNeverStalls ==
    initPc = "done" =>
        \/ \E s \in Slots : InFlight(cycles[s])
        \/ PendingPollTimers > 0

\* A superseded cycle has returned without scheduling, and so has a cycle
\* whose getWallpaper rejected after it was superseded.
C13_Witness ==
    /\ initPc = "done"
    /\ \E s \in Slots :
          /\ cycles[s].pc = "done"
          /\ cycles[s].sched = "none"
          /\ \E r \in Slots \ {s} : InFlight(cycles[r])

C15_DestroyStopsEverything ==
    [][destroyed =>
          /\ PendingPollTimers' <= PendingPollTimers
          /\ \A s \in Slots : cycles[s].pc = "idle" => cycles'[s].pc = "idle"
          /\ \A s \in Slots : cycles'[s].transforms <= cycles[s].transforms
          /\ meta' = meta
          /\ UNCHANGED <<backgroundImage, currentAppliedCssUrl,
                         lastAppliedImagePath, visible>>]_vars


\* A poll cycle that found the wallpaper the metadata named at start-up.
FirstCheckUnchanged(c) ==
    /\ c.trigger = "poll"
    /\ c.decided
    /\ ~c.wallpaperChanged
    /\ c.newOriginalPath = startup.identity

\* C16: a cold start whose recorded source and final artifact both exist
\* applies the cached final and starts no initial cycle, and a poll cycle
\* that finds the recorded wallpaper unchanged invokes no transform.
C16_ColdStartReusesCache ==
    /\ [][(~startup.ran /\ startup'.cold) =>
              /\ backgroundImage' = PathToCssUrl("final", finalFile)
              /\ visible'.kind = "final"
              /\ visible'.src = finalFile.src
              /\ cycles' = cycles]_vars
    /\ [](startup.cold =>
              /\ \A s \in Slots : cycles[s].trigger # "init"
              /\ \A s \in Slots :
                     cycles[s].isInitialLoad => cycles[s].transforms = 0
              /\ initPc \in {"restoreFinal", "restoredFinal", "overlay", "done"}
              /\ \A s \in Slots :
                     FirstCheckUnchanged(cycles[s]) =>
                         cycles[s].transforms = 0 /\ cycles[s].issued = 0)

C16_Witness ==
    /\ startup.cold
    /\ startup.identity = wallpaper
    /\ \E s \in Slots :
           /\ FirstCheckUnchanged(cycles[s])
           /\ cycles[s].pc = "done"
           /\ cycles[s].reused
           /\ cycles[s].transforms = 0


\* C17: whenever metadata and a final artifact are both on disk, the final
\* artifact was generated from the source the metadata names.
C17_MetadataNamesFinalOnDisk ==
    (meta # NoMeta /\ Exists(finalFile)) => finalFile.src = meta.path


\* The call of line 289 in the step just taken.
StartsForcedInitialCycle ==
    \E s \in Slots :
        /\ cycles[s].pc = "idle"
        /\ cycles'[s].pc = "getWallpaper"
        /\ cycles'[s].isInitialLoad
        /\ cycles'[s].forceRegenerate

\* C18: with the metadata absent or unreadable, _initialize completes with
\* an empty identity, restores nothing from the cache and starts a forced
\* initial cycle, which invokes both transforms unless a generation fails.
C18_MissingMetadataForcesFirstRun ==
    /\ [][(~startup.ran /\ startup'.ran /\ meta = NoMeta) =>
              /\ currentOriginalWallpaperPath' = NoPath
              /\ initPc' = "done"
              /\ UNCHANGED <<backgroundImage, currentAppliedCssUrl,
                             lastAppliedImagePath, transitions, visible>>
              /\ StartsForcedInitialCycle]_vars
    /\ [](startup.metaAbsent =>
              /\ startup.identity = NoPath
              /\ \A s \in Slots :
                     cycles[s].trigger = "init" =>
                         cycles[s].isInitialLoad /\ cycles[s].forceRegenerate
              /\ \A s \in Slots :
                     (/\ cycles[s].trigger = "init"
                      /\ RanToEnd(cycles[s])
                      /\ ~GenerationFailed(cycles[s])) =>
                         cycles[s].transforms = 2)

C18_Witness ==
    /\ startup.metaAbsent
    /\ previewFile.src = "W1" /\ previewFile.ver > CachedFile.ver
    /\ finalFile.src = "W1" /\ finalFile.ver > CachedFile.ver
    /\ \E s \in Slots :
           /\ cycles[s].trigger = "init"
           /\ RanToEnd(cycles[s])
           /\ cycles[s].transforms = 2


\* C19: the bounds _updateWindowState resolves for the window are defined
\* and have a positive width and a positive height.
C19_ResolvedDisplayPositive ==
    geometry.pc = "returned" =>
        /\ geometry.resolved.defined
        /\ geometry.resolved.width > 0
        /\ geometry.resolved.height > 0


\* The configurations the mapping is specified for.
ValidOverlayOptions(o) ==
    /\ o.minAlpha <= o.maxAlpha
    /\ o.brightnessThresholdLow < o.brightnessThresholdHigh

\* The extreme assigned at the low threshold and the one at the high.
AlphaAtLow(o) == IF o.realMode THEN o.maxAlpha ELSE o.minAlpha

AlphaAtHigh(o) == IF o.realMode THEN o.minAlpha ELSE o.maxAlpha

\* minAlpha and maxAlpha are written with at most three decimals.
ThreeDecimals(o) == o.minAlpha % 10 = 0 /\ o.maxAlpha % 10 = 0

PassesFlowIssue(s) ==
    /\ cycles[s].pc = "getWallpaper"
    /\ cycles'[s].pc \notin {"getWallpaper", "done"} \/ cycles'[s].decided

\* C24: the flow counter changes only by +1, in a step in which one cycle
\* executes lines 564-573 and issues its only id, or in destroy(); a cycle
\* issues an id exactly when the wallpaper changed, or regeneration is
\* forced and the cycle is not the initial load.
C24_FlowCounterIssuedOncePerCycle ==
    /\ [][activeWallpaperFlowId' # activeWallpaperFlowId =>
              /\ activeWallpaperFlowId' = activeWallpaperFlowId + 1
              /\ \/ ~destroyed /\ destroyed'
                 \/ \E s \in Slots :
                        /\ PassesFlowIssue(s)
                        /\ cycles[s].issued = 0
                        /\ cycles'[s].issued = 1
                        /\ \A r \in Slots \ {s} :
                               cycles'[r].issued = cycles[r].issued]_vars
    /\ [][\A s \in Slots :
              PassesFlowIssue(s) =>
                  LET c == cycles'[s]
                      due == \/ c.wallpaperChanged
                             \/ c.forceRegenerate /\ ~c.isInitialLoad
                  IN  /\ c.issued = (IF due THEN 1 ELSE 0)
                      /\ activeWallpaperFlowId' =
                             activeWallpaperFlowId + c.issued]_vars
    /\ [](\A s \in Slots : cycles[s].issued <= 1)
    /\ [][\A s \in Slots :
              (cycles[s].pc \notin {"idle", "getWallpaper", "done"}
                  /\ cycles'[s].pc # "idle")
                  => cycles'[s].issued = cycles[s].issued]_vars

C24_Witness ==
    /\ activeWallpaperFlowId >= 1
    /\ \E s \in Slots :
           /\ cycles[s].issued = 1
           /\ cycles[s].forceRegenerate
           /\ ~cycles[s].wallpaperChanged
           /\ ~cycles[s].isInitialLoad
           /\ cycles[s].pc = "done"


\* The flow id the cycle works under: the one captured at line 535 until
\* line 568, that one or the one issued at line 568 while the metadata is
\* written, and the one read at line 573 afterwards.  An initial-load cycle
\* that writes the metadata is taken to hold the active id.
FlowIdHeld(c) ==
    IF c.pc = "getWallpaper" THEN c.localFlowId
    ELSE IF c.pc = "saveMeta"
    THEN (IF c.isInitialLoad THEN activeWallpaperFlowId
          ELSE c.localFlowId + c.issued)
    ELSE c.currentActiveFlowId

\* The cycle in slot s starts the transition to an artifact in this step.
StartsApplication(s) ==
    /\ Len(cycles'[s].apps) > Len(cycles[s].apps)
    /\ cycles'[s].apps[Len(cycles'[s].apps)].outcome = "start"

\* C27: a cycle whose flow id has been superseded invokes no further
\* transform and starts no further application of an artifact.
C27_SupersededCycleStartsNothing ==
    [][\A s \in Slots :
          (InFlight(cycles[s]) /\ FlowIdHeld(cycles[s]) # activeWallpaperFlowId)
              => /\ cycles'[s].transforms = cycles[s].transforms
                 /\ ~StartsApplication(s)]_vars


\* C30: a cycle that ran alone and reused the final artifact found on disk
\* the final artifact generated from the identity it recorded.
C30_ReusedFinalMatchesIdentity ==
    \A s \in Slots :
        (cycles[s].reused /\ cycles[s].solo /\ cycles[s].pc = "done") =>
            /\ cycles[s].newOriginalPath = currentOriginalWallpaperPath
            /\ finalFile.src = currentOriginalWallpaperPath


\* ------------------------------------------------------------------- C25
\* The request logged by this step, if the step is a call of
\* _applyBackgroundImage by the caller of the transition controller.
Requested == Len(reqLog') > Len(reqLog)
LastRequested == reqLog'[Len(reqLog')]

\* C25: a call of _applyBackgroundImage whose flow id is not the active one
\* and that is not a cache restore resolves false at once and leaves the
\* background image, lastAppliedImagePath, currentAppliedCssUrl, the
\* transition flag, the pending slot and the overlay colour as they were.
C25_StaleCallChangesNothing ==
    [][(Requested /\ LastRequested.flowId # activeWallpaperFlowId) =>
          /\ ApplyResult(LastRequested.kind, FileOf(LastRequested.kind),
                         LastRequested.flowId, FALSE) = "rejected"
          /\ UNCHANGED <<backgroundImage, lastAppliedImagePath,
                         currentAppliedCssUrl, isTransitioningBackground,
                         pendingImageForTransition, overlayColor>>]_vars

\* A stale call made during the transition the first call started: the
\* transition goes on and nothing is queued.
C25_Witness ==
    /\ Len(reqLog) = 2
    /\ reqLog[1].outcome = "start"
    /\ reqLog[2].outcome = "reject"
    /\ isTransitioningBackground
    /\ pendingImageForTransition = NoPending


\* ------------------------------------------------------------------- C26
\* Every transition still awaited was started by a flow that is no longer
\* the active one, and this step completes one (by the transition-end
\* signal or by the safety timeout).
CompletesSuperseded ==
    /\ Len(transitions') < Len(transitions)
    /\ \A i \in 1..Len(transitions) :
          /\ transitions[i].flowId # activeWallpaperFlowId
          /\ ~transitions[i].restore

\* C26: the completion of a transition whose flow is no longer the active
\* one neither records its image as applied nor updates the overlay colour,
\* for the preview and for the final artifact.
C26_SupersededCompletionRecordsNothing ==
    [][CompletesSuperseded =>
          /\ currentAppliedCssUrl' = currentAppliedCssUrl
          /\ overlayColor' = overlayColor]_vars


\* ------------------------------------------------------------------- C29
\* What the re-application of the recorded image does: no transition is
\* started, the background image and the transition flag stay, the promise
\* resolves true and the overlay is computed again from that image.
ReappliesInPlace ==
    /\ transitions' = transitions
    /\ backgroundImage' = backgroundImage
    /\ isTransitioningBackground' = isTransitioningBackground
    /\ ApplyResult(LastRequested.kind, FileOf(LastRequested.kind),
                   LastRequested.flowId, FALSE) = "true"
    /\ LastRequested.flowId = activeWallpaperFlowId =>
          overlayColor' = IF currentScreenBounds = 0 THEN overlayColor
                          ELSE LastRequested.url

RequestedDuringTransition ==
    /\ Len(reqLog) = 3
    /\ reqLog[1].outcome = "start"
    /\ reqLog[2].outcome = "queue"
    /\ reqLog[3].outcome = "queue"
    /\ reqLog[2].during = reqLog[1].during
    /\ reqLog[3].during = reqLog[1].during
    /\ reqLog[2].url # reqLog[1].url
    /\ reqLog[2].url # reqLog[3].url

\* C28: the pending slot holds one path, that of the latest request: after A
\* started and B, then C were requested during its transition, B is never
\* the background image, the slot holds nothing but C's path, it is empty
\* once C has been assigned, and C is the background image when the
\* controller has come to rest.
C28_LatestPendingWins ==
    RequestedDuringTransition =>
        /\ backgroundImage # reqLog[2].url
        /\ pendingImageForTransition # NoPending =>
              pendingImageForTransition.kind = reqLog[3].kind
        /\ backgroundImage # reqLog[1].url =>
              /\ backgroundImage.kind = reqLog[3].kind
              /\ pendingImageForTransition = NoPending
        /\ (~isTransitioningBackground /\ zeroTimers = <<>>) =>
              backgroundImage.kind = reqLog[3].kind

\* A, B and C are three images, and C has replaced A at rest.
C28_Witness ==
    /\ RequestedDuringTransition
    /\ reqLog[3].url # reqLog[1].url
    /\ ~isTransitioningBackground
    /\ zeroTimers = <<>>
    /\ backgroundImage.kind = reqLog[3].kind
    /\ backgroundImage # reqLog[1].url
    /\ currentAppliedCssUrl = backgroundImage


\* ------------------------------------------------------------------- C21
\* C21: after a call of the overlay update that could not sample a
\* brightness (image load error, zero-size image, no canvas context, pixel
\* read-back error, unusable window or display bounds), the overlay carries
\* the default alpha of the active mode: maxAlpha in light mode, minAlpha in
\* dark mode.
C21_NoSampleGivesDefault ==
    dynamicOverlay.cause \in (ReturnsEarly \cup SamplerRejects) =>
        dynamicOverlay.color = DefaultAlpha(dynamicOverlay)


\* ------------------------------------------------------------------- C22
\* The move/resize notifications delivered so far form one burst: none of
\* them arrived after a move-update timer had fired.
IsBurst(log) ==
    /\ \E i \in 1..Len(log) : log[i] = "notify"
    /\ \A i, j \in 1..Len(log) :
          (i < j /\ log[i] # "notify") => log[j] # "notify"

Recomputations(log) == Cardinality({i \in 1..Len(log) : log[i] = "recompute"})

\* Nothing of the burst is left to happen.
DebounceSettled ==
    /\ win.notices.bounds = 0
    /\ win.awaiting = <<>>
    /\ win.timers = 0

\* C22, with an image applied: at most one move-update timer is pending, and
\* a burst of move/resize notifications, each arriving before the timer of
\* the previous one has fired, leads to exactly one brightness
\* recomputation, after the last of them.
C22_BurstRecomputesOnce ==
    /\ win.timers <= 1
    /\ (win.imageApplied /\ IsBurst(win.log) /\ DebounceSettled) =>
          /\ Recomputations(win.log) = 1
          /\ win.log[Len(win.log)] = "recompute"

\* ------------------------------------------------------------------- C23
\* C23: whenever the window state observed last is maximized or fullscreen
\* the viewport has margin 0, no shadow and radius 0, and otherwise it has
\* the 5px margin, the shadow and the configured radius, whichever of the
\* state, move/resize and poll handlers refreshed the observed state last.
C23_ViewportFollowsObservedState ==
    win.pc = "listening" =>
        win.viewportFlush = (win.isMaximized \/ win.isFullScreen)


\* ------------------------------------------------------------------- C31
\* The cycle in slot s, whose flow has been superseded, completes a
\* transform in this step, and its output replaces an artifact that had been
\* generated for the recorded identity and display size by one that was not.
StaleWriteReplaces(s, old, new) ==
    /\ cycles[s].gen = "running"
    /\ cycles[s].currentActiveFlowId # activeWallpaperFlowId
    /\ new # old
    /\ new.src = cycles[s].newOriginalPath
    /\ new.size = cycles[s].screenSize
    /\ Exists(old)
    /\ old.src = currentOriginalWallpaperPath
    /\ old.size = lastKnownScreenDimensions
    /\ <<new.src, new.size>> # <<old.src, old.size>>

\* C31: the output of a transform that belongs to a superseded flow never
\* replaces what the superseding flow has written to the preview or to the
\* final artifact.
C31_SupersededWriteNeverLands ==
    [][\A s \in Slots :
          /\ ~(cycles[s].pc = "genPreview"
               /\ StaleWriteReplaces(s, previewFile, previewFile'))
          /\ ~(cycles[s].pc = "genFinal"
               /\ StaleWriteReplaces(s, finalFile, finalFile'))]_vars


\* ------------------------------------------------------------------- C32
\* The cycle in slot s has a transform in flight that writes the artifact of
\* the given kind.
TransformInFlight(s, kind) ==
    /\ cycles[s].pc = (IF kind = "preview" THEN "genPreview" ELSE "genFinal")
    /\ cycles[s].gen = "running"

\* C32: at most one transform that writes a given artifact path is in
\* flight at any time, across all overlapping cycles.
C32_OneTransformPerArtifact ==
    \A kind \in Kinds : \A s, r \in Slots :
        (TransformInFlight(s, kind) /\ TransformInFlight(r, kind)) => s = r


\* ------------------------------------------------------------------- C33
\* The queued re-application that runs in this step was queued by a flow
\* that is no longer the active one.
ReappliesForSupersededFlow ==
    /\ zeroTimers # <<>>
    /\ zeroTimers' = Tail(zeroTimers)
    /\ Head(zeroTimers).hflow # activeWallpaperFlowId

\* C33: a pending image queued by a flow that is no longer active when the
\* transition has completed is dropped: it is never assigned as the
\* background image and starts no transition.
C33_SupersededPendingDropped ==
    [][ReappliesForSupersededFlow =>
          /\ backgroundImage' = backgroundImage
          /\ transitions' = transitions]_vars


\* ------------------------------------------------------------------- C34
\* C34: whenever no transition is in progress, currentAppliedCssUrl is the
\* value of the container's background image.
C34_RecordMatchesBackgroundAtRest ==
    (~isTransitioningBackground /\ ~destroyed /\ initPc # "start") =>
        currentAppliedCssUrl = backgroundImage


\* ------------------------------------------------------------------- C36
\* C36: when the display size differs from the persisted
\* lastKnownScreenDimensions, _initialize does not restore the cached final
\* artifact: the step leaves the background image alone and starts the
\* forced initial cycle that regenerates the artifacts.
C36_RestoreOnlyForSameDisplaySize ==
    [][(~startup.ran /\ startup'.ran /\ meta.dims # screen) =>
          /\ backgroundImage' = backgroundImage
          /\ \E s \in Slots : /\ cycles'[s].pc = "getWallpaper"
                              /\ cycles'[s].forceRegenerate]_vars

\* ---------------------------------------------------------------- C37
\* C37: the scale factor with which the sampler maps the window's content
\* rectangle onto the image equals the reduction ratio the sampled image
\* (the last applied artifact, preview or final) was generated with.
C37_ScaleIsGenerationRatio ==
    sampler.pc \in {"readBack", "sentinel"} =>
        sampler.zipRate = GeneratedWith(sampler.image)

\* ---------------------------------------------------------------- C38
\* C38: pixels are read back only from a rectangle of positive width and
\* height that lies inside the image; when the clamped rectangle has no
\* area nothing is read back and 0 (light mode) or 255 (dark mode) is
\* returned.
C38_ReadBackInsideImage ==
    /\ sampler.pc = "readBack" =>
          /\ sampler.sWidth > 0
          /\ sampler.sHeight > 0
          /\ 0 <= sampler.sx
          /\ 0 <= sampler.sy
          /\ sampler.sx + sampler.sWidth <= sampler.canvas.width
          /\ sampler.sy + sampler.sHeight <= sampler.canvas.height
    /\ (/\ sampler.pc \in {"readBack", "sentinel"}
        /\ (sampler.sWidth <= 0 \/ sampler.sHeight <= 0)) =>
          /\ sampler.pc = "sentinel"
          /\ sampler.result = IF sampler.lightModeForSampling THEN 0 ELSE 255

\* A window hanging over the right and lower edges of the image is read
\* back up to those edges.
C38_Witness ==
    /\ sampler.pc = "readBack"
    /\ sampler.sx > 0
    /\ sampler.sy > 0
    /\ RoundScaled(ContentW(sampler), sampler.zipRate) > sampler.sWidth
    /\ RoundScaled(ContentH(sampler), sampler.zipRate) > sampler.sHeight

\* ---------------------------------------------------------------- C39
\* C39: the rectangle read back lies inside the scaled window content
\* rectangle (and, by C38, inside the image), also when the content origin
\* is left of or above the display origin: moving the origin to 0 takes
\* the part off the image from the width and height.
C39_SampledWithinScaledWindow ==
    sampler.pc = "readBack" =>
        LET x == RoundScaled(ContentX(sampler), sampler.zipRate)
            y == RoundScaled(ContentY(sampler), sampler.zipRate)
            w == RoundScaled(ContentW(sampler), sampler.zipRate)
            h == RoundScaled(ContentH(sampler), sampler.zipRate)
        IN  /\ x <= sampler.sx
            /\ sampler.sx + sampler.sWidth <= x + w
            /\ y <= sampler.sy
            /\ sampler.sy + sampler.sHeight <= y + h

\* ---------------------------------------------------------------- C40
\* The offset for a window origin, a display origin, a window state and a
\* title-bar height: the margin is 0 when maximized or fullscreen, else 5,
\* and the title bar shifts the vertical offset.
OffsetFor(w, d, flush, titleBar) ==
    [x |-> 0 - (w.x - d.x + (IF flush THEN 0 ELSE 5)),
     y |-> 0 - (w.y - d.y + (IF flush THEN 0 ELSE 5) + titleBar),
     written |-> TRUE]

\* No handler is suspended and no frame is pending, after at least one
\* position update.
PositionSettled ==
    /\ view.pc = "listening"
    /\ view.nextFrame > 1
    /\ view.frames = {}
    /\ view.invokes = <<>>

\* C40: at most one animation-frame callback is pending; a frame that
\* changes the translation writes -(window origin - display origin + margin
\* + title-bar offset) of the bounds and state observed last; and once the
\* updates have settled the translation is that of the window as it is.
C40_OffsetOfLatestGeometry ==
    /\ [](Cardinality(view.frames) <= 1)
    /\ [][view'.transform # view.transform =>
            view'.transform =
                OffsetFor(view.currentWindowBounds, view.currentScreenBounds,
                          view.isMaximized \/ view.isFullScreen,
                          view.titleBarHeight)]_vars
    /\ [](PositionSettled =>
            view.transform =
                OffsetFor(view.actual, ScreenOriginOf(view.actual),
                          view.actual.state # "normal", view.titleBarHeight))

\* Three position updates, the last for a maximized window on the second
\* display, have been coalesced and the translation is written.
C40_Witness ==
    /\ PositionSettled
    /\ view.nextFrame = 4
    /\ view.actual.state = "maximized"
    /\ view.actual.x = 12
    /\ view.titleBarHeight = 3
    /\ view.transform = [x |-> -2, y |-> -7, written |-> TRUE]

\* ---------------------------------------------------------------- C35
\* C35: overlay computations take effect in the order they were started:
\* the colour of a computation is never replaced by that of one started
\* before it.
C35_OverlayInStartOrder ==
    [][view'.overlay.no >= view.overlay.no]_vars

====
